---- MODULE Spec2Model ----
(***************************************************************************)
(* Model of the cache engine of moco-mcp (src/src/utils/cache.ts):         *)
(* MemoryCacheStore (a key -> entry map with lazy TTL expiry) and Cache    *)
(* (the facade that adds single-flight fetch de-duplication, getOrSet),    *)
(* and of the API client built on it (src/src/services/mocoApi.ts): the    *)
(* single-page request, fetchAllPages, the cached queries and the holiday  *)
(* and schedules queries; of getMocoConfig and the HTTP server             *)
(* (src/src/config/environment.ts).  Each component has its own            *)
(* specification: Spec and LiveSpec (Cache), StoreSpec (MemoryCacheStore), *)
(* PageSpec (fetchAllPages), ServiceSpec (cached queries), QuerySpec       *)
(* (holidays), CoreSpec (a cached query with its pagination), LookupSpec   *)
(* (searches and task lookup), LogSpec (request logging), ConfigSpec       *)
(* (getMocoConfig), HttpSpec (the HTTP server).                            *)
(*                                                                         *)
(* JavaScript runs one job at a time, so every synchronous stretch of code *)
(* is one action: a call of get/set/delete/clear/getOrSet up to the point  *)
(* where it returns its promise, and the reaction jobs of the chain        *)
(*   Promise.resolve().then(fetcher).then(store).finally(unregister)       *)
(* built by getOrSet.  Other jobs may run between two reactions.  A        *)
(* reaction that touches neither the store nor the pending table (the      *)
(* fetcher's promise settling, a rejection passing the store reaction, the *)
(* callers' promises following the chain) is folded into the next reaction *)
(* of the chain that does: no operation of the cache can tell the states   *)
(* before and after it apart.                                              *)
(***************************************************************************)
EXTENDS Integers, Sequences, FiniteSets, TLC

\* ------------------------------------------------------------- bounds ----
\* getOrSet calls made in one behaviour
MaxCalls == 2
\* page requests one activation of fetchAllPages is followed through
MaxRequests == 3
\* schedules in the body of one response
MaxSchedules == 2
\* the clock stops advancing here (ms)
MaxTime == 1000
\* granularity of the clock (ms)
TickMs == 500

\* ---------------------------------------------------------- constants ----
\* cache.ts:46  ttlSeconds * 1000
MsPerSecond == 1000

Keys == {"k1", "k2"}
\* ttlSeconds values passed to getOrSet: negative, zero and positive
Ttls == {-1, 0, 1}
\* what one invocation of the fetcher can end in: a value, the value
\* `undefined`, or a failure (a rejected promise or a synchronous throw)
Outcomes == {"ok", "undef", "fail"}
\* the ttlSeconds argument of a direct set(): omitted (<<>>), negative, zero
SetTtls == {<<>>, <<-1>>, <<0>>}

\* A value is tagged with the fetcher invocation that produced it (src, 0 for
\* a value handed to set() directly), so that values of different invocations
\* differ; def = FALSE is the JavaScript value `undefined`.
Value(src, def) == [src |-> src, def |-> def]
Undefined == Value(0, FALSE)
NoEntry == [none |-> TRUE]

VARIABLES
    now,             \* Date.now()
    store,           \* MemoryCacheStore.store : key -> entry
    pendingFetches,  \* Cache.pendingFetches : key -> id of the registered promise, 0 if none
    fetches,         \* the fetcher invocations getOrSet has set up, by id
    calls,           \* the getOrSet calls made so far and what their promises settled to
    clearedKeys,     \* history: keys with no getOrSet(ttl > 0)/set since the last clear()
    lastOp,          \* history: the last operation made on the MemoryCacheStore directly
    pager,           \* one activation of MocoApiService.fetchAllPages
    query,           \* one activation of a holiday or schedules query of MocoApiService
    lastQuery,       \* history: the arguments of the last cached query of MocoApiService
    config,          \* MocoApiService.config, as getMocoConfig() returned it
    search,          \* one activation of searchProjects, searchUsers or getProjectTasks
    env,             \* process.env: the variables getMocoConfig reads
    mocoConfig,      \* what the last call of getMocoConfig returned or threw
    logger,          \* the requests issued and the entries logger.debug has written
    http,            \* the HTTP server of startHttpServer and its request handler
    direct,          \* one activation of getProjects, getActivities or getUserPresences
    ngrok,           \* the ngrok tunnel of startHttpServer and the shutdown of the server
    tool,            \* one activation of the handler of the search_users tool
    upstream,        \* the answer the upstream has under way to a page request of fetchAllPages
    keyed            \* the cache keys and upstream parameters getCachedUsers has computed

vars == <<now, store, pendingFetches, fetches, calls, clearedKeys, lastOp, pager, query, lastQuery, config,
          search, env, mocoConfig, logger, http, direct, ngrok, tool, upstream, keyed>>

\* the variables of the other components, which the operations of the
\* cache engine leave alone
besideCache == <<lastOp, pager, query, lastQuery, config, search, env, mocoConfig, logger, http, direct, ngrok, tool, upstream, keyed>>

\* ------------------------------------------------- MemoryCacheStore ------
\* IsExpired with the off-by-one slip: the entry still served at the instant
\* it expires
IsExpiredStrict(entry, t) == entry.expiresAt # <<>> /\ entry.expiresAt[1] < t

\* cache.ts:31  entry.expiresAt !== undefined && entry.expiresAt <= Date.now()
IsExpired(entry, t) == entry.expiresAt # <<>> /\ entry.expiresAt[1] <= t

\* MemoryCacheStore.get, the value returned
MemGetValue(s, key, t) ==
    IF s[key] = NoEntry THEN Undefined
    ELSE IF IsExpired(s[key], t) THEN Undefined
    ELSE s[key].value

\* MemGetStore with the purge forgotten: an expired entry is hidden from the
\* reader and stays in the map
MemGetStoreKeeps(s, key, t) == s

\* MemoryCacheStore.get, the store it leaves (an expired entry is deleted)
MemGetStore(s, key, t) ==
    IF s[key] # NoEntry /\ IsExpired(s[key], t)
    THEN [s EXCEPT ![key] = NoEntry]
    ELSE s

\* cache.ts:46  ttlSeconds ? Date.now() + ttlSeconds * 1000 : undefined
\* (ttlOpt is <<>> when the argument is omitted, <<ttl>> otherwise)
ExpiresAt(ttlOpt, t) ==
    IF ttlOpt # <<>> /\ ttlOpt[1] # 0 THEN <<t + ttlOpt[1] * MsPerSecond>> ELSE <<>>

\* MemSet with the slip of testing ttlSeconds < 0: a zero ttl is stored, and
\* (0 being falsy at cache.ts:46) without expiry
MemSetNegativeOnly(s, key, value, ttlOpt, t) ==
    IF ttlOpt # <<>> /\ ttlOpt[1] < 0
    THEN [s EXCEPT ![key] = NoEntry]
    ELSE [s EXCEPT ![key] = [value |-> value, expiresAt |-> ExpiresAt(ttlOpt, t)]]

\* MemoryCacheStore.set
MemSet(s, key, value, ttlOpt, t) ==
    IF ttlOpt # <<>> /\ ttlOpt[1] <= 0
    THEN [s EXCEPT ![key] = NoEntry]
    ELSE [s EXCEPT ![key] = [value |-> value, expiresAt |-> ExpiresAt(ttlOpt, t)]]

\* MemoryCacheStore.delete
MemDelete(s, key) == [s EXCEPT ![key] = NoEntry]

\* MemoryCacheStore.clear
MemClear(s) == [k \in Keys |-> NoEntry]

\* ------------------------------------------------------------ Cache ------
NoPending == [k \in Keys |-> 0]

\* the promise a call returned has not settled yet
Unsettled == [st |-> "pending"]
\* what a promise settles to when the fetcher invocation f ended in outcome o
Settled(f, o) ==
    IF o = "fail" THEN [st |-> "rejected", err |-> f]
    ELSE [st |-> "fulfilled", value |-> Value(f, o = "ok")]

\* no operation made yet
NoOp == [op |-> "none"]

\* the cache engine after construction
CacheInit ==
    /\ now = 0
    /\ store = [k \in Keys |-> NoEntry]
    /\ pendingFetches = NoPending
    /\ fetches = <<>>
    /\ calls = <<>>
    /\ clearedKeys = {}

\* fetchAllPages not called yet
PagerIdle ==
    [pc |-> "idle", currentPage |-> 1, allItems |-> <<>>, requests |-> <<>>,
     responses |-> <<>>, result |-> [st |-> "none"]]
\* no cached query made yet
NoQuery == [op |-> "none"]
\* no holiday or schedules query called yet
QueryIdle == [pc |-> "idle", op |-> "none", request |-> <<>>, response |-> <<>>,
              result |-> [st |-> "none"]]

\* the configuration the components other than MocoApiService run under:
\* caching on
DefaultConfig == [cacheTtlSeconds |-> 1]

\* no search and no task lookup called yet
SearchIdle == [pc |-> "idle", op |-> "none", arg |-> <<>>, awaited |-> <<>>,
               fetched |-> <<>>, result |-> [st |-> "none"]]
\* an environment with none of the variables set (<<>>: undefined)
EmptyEnv == [MOCO_API_KEY |-> <<>>, MOCO_SUBDOMAIN |-> <<>>, MOCO_API_CACHE_TIME |-> <<>>]
\* getMocoConfig not called yet
NotLoaded == [st |-> "none"]
\* no request issued, nothing logged
NoLog == [requests |-> 0, entries |-> <<>>]
\* startHttpServer not called yet
HttpDown == [pc |-> "down", basePath |-> <<>>, request |-> <<>>, response |-> <<>>,
             handled |-> 0, served |-> 0]

\* the components beside the cache engine and the API client's requests,
\* before their first operation
\* no direct operation called yet
DirectIdle == [pc |-> "idle", op |-> "none", request |-> <<>>, result |-> [st |-> "none"]]
\* startHttpServer not called: no connect under way, ngrokListener undefined,
\* no tunnel, shutdown not called
NgrokOff ==
    [connect |-> "none", ngrokListener |-> <<>>, tunnel |-> "none", shutdown |-> "none"]
\* the handler of search_users not called yet
ToolIdle == [pc |-> "idle", params |-> <<>>, constructed |-> FALSE, result |-> [st |-> "none"]]
\* the upstream has answered no page request
NoAnswer == [to |-> 0]
RestInit ==
    /\ search = SearchIdle
    /\ env = EmptyEnv
    /\ mocoConfig = NotLoaded
    /\ logger = NoLog
    /\ http = HttpDown
    /\ direct = DirectIdle
    /\ ngrok = NgrokOff
    /\ tool = ToolIdle
    /\ upstream = NoAnswer
    /\ keyed = <<>>

Init ==
    /\ CacheInit
    /\ lastOp = NoOp
    /\ pager = PagerIdle
    /\ query = QueryIdle
    /\ lastQuery = NoQuery
    /\ config = DefaultConfig
    /\ RestInit

\* Bypasses with the slip of testing ttlSeconds < 0: a zero ttl is cached
BypassesNegativeOnly(ttl) == ttl < 0

\* cache.ts:89  if (ttlSeconds <= 0)
Bypasses(ttl) == ttl <= 0

\* GetOrSetBypass with the invocation registered as the pending fetch of the
\* key (the slip of testing the ttl after the registration)
GetOrSetBypassRegisters(key, ttl) ==
    /\ fetches' = Append(fetches, [key |-> key, ttl |-> ttl, state |-> "running", outcome |-> "none"])
    /\ calls' = Append(calls, [key |-> key, ttl |-> ttl, kind |-> "bypass",
                               fetch |-> Len(fetches) + 1, result |-> Unsettled])
    /\ pendingFetches' = [pendingFetches EXCEPT ![key] = Len(fetches) + 1]
    /\ UNCHANGED <<store, clearedKeys>>

\* cache.ts:89-91  return await Promise.resolve(fetcher()): the fetcher is
\* invoked inside the call; store and pending table are not touched
GetOrSetBypass(key, ttl) ==
    /\ fetches' = Append(fetches, [key |-> key, ttl |-> ttl, state |-> "running", outcome |-> "none"])
    /\ calls' = Append(calls, [key |-> key, ttl |-> ttl, kind |-> "bypass",
                               fetch |-> Len(fetches) + 1, result |-> Unsettled])
    /\ UNCHANGED <<store, pendingFetches, clearedKeys>>

\* cache.ts:93-96  the entry is present and unexpired: return cached
GetOrSetHit(key, ttl, cached) ==
    /\ calls' = Append(calls, [key |-> key, ttl |-> ttl, kind |-> "hit", fetch |-> 0,
                               result |-> [st |-> "fulfilled", value |-> cached]])
    /\ UNCHANGED <<fetches, pendingFetches>>

\* cache.ts:98-101  return existingPending
GetOrSetJoin(key, ttl) ==
    /\ calls' = Append(calls, [key |-> key, ttl |-> ttl, kind |-> "join",
                               fetch |-> pendingFetches[key], result |-> Unsettled])
    /\ UNCHANGED <<fetches, pendingFetches>>

\* GetOrSetStart with the registration left to a later job (the slip of
\* registering after the first suspension)
GetOrSetStartUnregistered(key, ttl) ==
    /\ fetches' = Append(fetches, [key |-> key, ttl |-> ttl, state |-> "queued", outcome |-> "none"])
    /\ UNCHANGED pendingFetches
    /\ calls' = Append(calls, [key |-> key, ttl |-> ttl, kind |-> "start",
                               fetch |-> Len(fetches) + 1, result |-> Unsettled])

\* cache.ts:103-114  build the promise chain (the fetcher runs in a later
\* reaction job) and register it in the same synchronous stretch
GetOrSetStart(key, ttl) ==
    /\ fetches' = Append(fetches, [key |-> key, ttl |-> ttl, state |-> "queued", outcome |-> "none"])
    /\ pendingFetches' = [pendingFetches EXCEPT ![key] = Len(fetches) + 1]
    /\ calls' = Append(calls, [key |-> key, ttl |-> ttl, kind |-> "start",
                               fetch |-> Len(fetches) + 1, result |-> Unsettled])

\* GetOrSet with the slip of testing the presence of an unexpired entry
\* instead of cached !== undefined: a stored undefined is served
GetOrSetServesUndefined(key, ttl) ==
    /\ Len(calls) < MaxCalls
    /\ UNCHANGED now
    /\ IF Bypasses(ttl)
       THEN GetOrSetBypass(key, ttl)
       ELSE /\ store' = MemGetStore(store, key, now)
            /\ clearedKeys' = clearedKeys \ {key}
            /\ LET cached == MemGetValue(store, key, now) IN
               IF store[key] # NoEntry /\ ~IsExpired(store[key], now)
               THEN GetOrSetHit(key, ttl, cached)
               ELSE IF pendingFetches[key] # 0 THEN GetOrSetJoin(key, ttl)
               ELSE GetOrSetStart(key, ttl)

\* Cache.getOrSet, up to the return of its promise
GetOrSet(key, ttl) ==
    /\ Len(calls) < MaxCalls
    /\ UNCHANGED now
    /\ IF Bypasses(ttl)
       THEN GetOrSetBypass(key, ttl)
       ELSE /\ store' = MemGetStore(store, key, now)
            /\ clearedKeys' = clearedKeys \ {key}
            /\ LET cached == MemGetValue(store, key, now) IN
               IF cached.def THEN GetOrSetHit(key, ttl, cached)
               ELSE IF pendingFetches[key] # 0 THEN GetOrSetJoin(key, ttl)
               ELSE GetOrSetStart(key, ttl)

\* cache.ts:104  .then(fetcher): the reaction job that invokes the fetcher
InvokeFetcher(f) ==
    /\ fetches[f].state = "queued"
    /\ fetches' = [fetches EXCEPT ![f].state = "running"]
    /\ UNCHANGED <<now, store, pendingFetches, calls, clearedKeys>>

\* SettleCallers settling only the call that started the fetch (a joiner
\* handed a promise that does not follow the chain)
SettleStarterOnly(cs, f, o) ==
    [c \in DOMAIN cs |->
        IF cs[c].fetch = f /\ cs[c].kind # "join"
        THEN [cs[c] EXCEPT !.result = Settled(f, o)] ELSE cs[c]]

\* the promises returned to the callers of fetch f follow its promise
SettleCallers(cs, f, o) ==
    [c \in DOMAIN cs |-> IF cs[c].fetch = f THEN [cs[c] EXCEPT !.result = Settled(f, o)] ELSE cs[c]]

\* cache.ts:90  the fetcher of a bypassing call settles: the awaiting call
\* settles with its outcome; nothing of the cache runs
BypassSettles(f, o) ==
    /\ fetches[f].state = "running"
    /\ Bypasses(fetches[f].ttl)
    /\ fetches' = [fetches EXCEPT ![f].outcome = o, ![f].state = "delivered"]
    /\ calls' = SettleCallers(calls, f, o)
    /\ UNCHANGED <<now, store, pendingFetches, clearedKeys>>

\* cache.ts:105-108  the fetcher fulfilled with a value (o = "ok") or with
\* undefined (o = "undef"); the reaction
\*   .then((result) => { this.set(key, result, ttlSeconds); return result })
OnFulfilled(f, o) ==
    /\ fetches[f].state = "running"
    /\ ~Bypasses(fetches[f].ttl)
    /\ o # "fail"
    /\ store' = MemSet(store, fetches[f].key, Value(f, o = "ok"), <<fetches[f].ttl>>, now)
    /\ fetches' = [fetches EXCEPT ![f].outcome = o, ![f].state = "stored"]
    /\ UNCHANGED <<now, pendingFetches, calls, clearedKeys>>

\* Unregister with the deletion forgotten
UnregisterNothing(p, key) == p

\* cache.ts:110  this.pendingFetches.delete(key)
Unregister(p, key) == [p EXCEPT ![key] = 0]

\* cache.ts:109-111  .finally(() => { this.pendingFetches.delete(key) }): the
\* record of the key is removed, the chain's promise settles with the
\* fetcher's outcome and the promises returned to the callers follow it
Finally(f, o) ==
    /\ pendingFetches' = Unregister(pendingFetches, fetches[f].key)
    /\ fetches' = [fetches EXCEPT ![f].outcome = o, ![f].state = "delivered"]
    /\ calls' = SettleCallers(calls, f, o)
    /\ UNCHANGED <<now, store, clearedKeys>>

\* the finally reaction after the store reaction
OnFinally(f) ==
    /\ fetches[f].state = "stored"
    /\ Finally(f, fetches[f].outcome)

\* OnRejected with the record removed on success only (.then in place of
\* .finally): the callers are rejected, the record of the failed fetch stays
OnRejectedKeepsRecord(f) ==
    /\ fetches[f].state = "running"
    /\ ~Bypasses(fetches[f].ttl)
    /\ fetches' = [fetches EXCEPT ![f].outcome = "fail", ![f].state = "delivered"]
    /\ calls' = SettleCallers(calls, f, "fail")
    /\ UNCHANGED <<now, store, pendingFetches, clearedKeys>>

\* OnRejected with a retry: the failure is swallowed and the fetcher is
\* queued again for the same callers
OnRejectedRetries(f) ==
    /\ fetches[f].state = "running"
    /\ ~Bypasses(fetches[f].ttl)
    /\ fetches' = [fetches EXCEPT ![f].state = "queued"]
    /\ UNCHANGED <<now, store, pendingFetches, calls, clearedKeys>>

\* cache.ts:104-111  the fetcher failed (its promise rejected, or it threw):
\* the store reaction is skipped, the finally reaction runs
OnRejected(f) ==
    /\ fetches[f].state = "running"
    /\ ~Bypasses(fetches[f].ttl)
    /\ Finally(f, "fail")

\* Cache.get (cache.ts:67-69)
Get(key) ==
    /\ store' = MemGetStore(store, key, now)
    /\ UNCHANGED <<now, pendingFetches, fetches, calls, clearedKeys>>

\* Cache.set (cache.ts:71-73)
Set(key, value, ttlOpt) ==
    /\ store' = MemSet(store, key, value, ttlOpt, now)
    /\ clearedKeys' = clearedKeys \ {key}
    /\ UNCHANGED <<now, pendingFetches, fetches, calls>>

\* Cache.delete (cache.ts:75-77)
Delete(key) ==
    /\ store' = MemDelete(store, key)
    /\ UNCHANGED <<now, pendingFetches, fetches, calls, clearedKeys>>

\* ClearPending with the table left as it is (clear() emptying the store only)
ClearPendingKeeps(p) == p

\* the pending table after Cache.clear (cache.ts:81)
ClearPending(p) == NoPending

\* Cache.clear (cache.ts:79-82): the running chains are not touched
Clear ==
    /\ store' = MemClear(store)
    /\ pendingFetches' = ClearPending(pendingFetches)
    /\ clearedKeys' = Keys
    /\ UNCHANGED <<now, fetches, calls>>

\* Date.now() advances
Tick ==
    /\ now + TickMs <= MaxTime
    /\ now' = now + TickMs
    /\ UNCHANGED <<store, pendingFetches, fetches, calls, clearedKeys>>

\* ids of the fetcher invocations a behaviour can hold (one per call at most)
FetchIds == 1..MaxCalls

Next ==
    \/ \E key \in Keys, ttl \in Ttls : GetOrSet(key, ttl) /\ UNCHANGED besideCache
    \/ \E f \in DOMAIN fetches : InvokeFetcher(f) /\ UNCHANGED besideCache
    \/ \E f \in DOMAIN fetches, o \in {"ok", "fail"} : BypassSettles(f, o) /\ UNCHANGED besideCache
    \/ \E f \in DOMAIN fetches, o \in Outcomes : OnFulfilled(f, o) /\ UNCHANGED besideCache
    \/ \E f \in DOMAIN fetches : OnFinally(f) /\ UNCHANGED besideCache
    \/ \E f \in DOMAIN fetches : OnRejected(f) /\ UNCHANGED besideCache
    \/ \E key \in Keys : Get(key) /\ UNCHANGED besideCache
    \/ \E key \in Keys, ttlOpt \in SetTtls : Set(key, Value(0, TRUE), ttlOpt) /\ UNCHANGED besideCache
    \/ \E key \in Keys : Delete(key) /\ UNCHANGED besideCache
    \/ Clear /\ UNCHANGED besideCache
    \/ Tick /\ UNCHANGED besideCache

Spec == Init /\ [][Next]_vars

\* The operations that read or write the pending table and the chains, for
\* the progress properties.  The direct get() and set() are left out: an
\* entry that a getOrSet call can hit is also written by a fetch, and an
\* expired entry is also purged by getOrSet itself.
NextLive ==
    \/ \E key \in Keys, ttl \in Ttls : GetOrSet(key, ttl) /\ UNCHANGED besideCache
    \/ \E f \in DOMAIN fetches : InvokeFetcher(f) /\ UNCHANGED besideCache
    \/ \E f \in DOMAIN fetches, o \in {"ok", "fail"} : BypassSettles(f, o) /\ UNCHANGED besideCache
    \/ \E f \in DOMAIN fetches, o \in Outcomes : OnFulfilled(f, o) /\ UNCHANGED besideCache
    \/ \E f \in DOMAIN fetches : OnFinally(f) /\ UNCHANGED besideCache
    \/ \E f \in DOMAIN fetches : OnRejected(f) /\ UNCHANGED besideCache
    \/ \E key \in Keys : Delete(key) /\ UNCHANGED besideCache
    \/ Clear /\ UNCHANGED besideCache
    \/ Tick /\ UNCHANGED besideCache

\* The reaction jobs of a settled promise are run by the job queue: once the
\* store reaction has run, the finally reaction is queued and does run.  No
\* fairness is assumed of the fetcher (it may never settle) nor of callers.
LiveSpec ==
    Init /\ [][NextLive]_vars /\ \A f \in FetchIds : WF_vars(f \in DOMAIN fetches /\ OnFinally(f) /\ UNCHANGED besideCache)

\* ------------------------------------ MemoryCacheStore, used directly ----
\* The operations of the store (cache.ts:22-57) called one at a time, as
\* Cache.get/set/delete call them, with every kind of ttlSeconds argument.
\* lastOp records the operation of the last step: its arguments, the entry
\* it found under its key and what it returned.

\* the ttlSeconds argument of MemoryCacheStore.set: omitted, negative, zero,
\* positive
StoreTtls == {<<>>, <<-1>>, <<0>>, <<1>>}
\* the values handed to set(): a value and `undefined`
StoreValues == {Value(0, TRUE), Undefined}

\* the variables the store operations leave alone
besideStore == <<pendingFetches, fetches, calls, clearedKeys, pager, query, lastQuery, config,
                 search, env, mocoConfig, logger, http, direct, ngrok, tool, upstream, keyed>>

\* MemoryCacheStore.get (cache.ts:25-37)
StoreGet(key) ==
    /\ store' = MemGetStore(store, key, now)
    /\ lastOp' = [op |-> "get", key |-> key, found |-> store[key],
                  result |-> MemGetValue(store, key, now)]
    /\ UNCHANGED now
    /\ UNCHANGED besideStore

\* MemoryCacheStore.set (cache.ts:39-48)
StoreSet(key, value, ttlOpt) ==
    /\ store' = MemSet(store, key, value, ttlOpt, now)
    /\ lastOp' = [op |-> "set", key |-> key, found |-> store[key],
                  value |-> value, ttl |-> ttlOpt]
    /\ UNCHANGED now
    /\ UNCHANGED besideStore

\* MemoryCacheStore.delete (cache.ts:50-52)
StoreDelete(key) ==
    /\ store' = MemDelete(store, key)
    /\ lastOp' = [op |-> "delete", key |-> key, found |-> store[key]]
    /\ UNCHANGED now
    /\ UNCHANGED besideStore

\* MemoryCacheStore.clear (cache.ts:54-56)
StoreClear ==
    /\ store' = MemClear(store)
    /\ lastOp' = [op |-> "clear"]
    /\ UNCHANGED now
    /\ UNCHANGED besideStore

\* time passes and no operation is called: the store has no timer and no
\* background job
StoreIdle ==
    /\ Tick
    /\ UNCHANGED <<lastOp, pager, query, lastQuery, config, search, env, mocoConfig, logger, http, direct, ngrok, tool, upstream, keyed>>

StoreNext ==
    \/ \E key \in Keys : StoreGet(key)
    \/ \E key \in Keys, value \in StoreValues, ttlOpt \in StoreTtls : StoreSet(key, value, ttlOpt)
    \/ \E key \in Keys : StoreDelete(key)
    \/ StoreClear
    \/ StoreIdle

StoreSpec == Init /\ [][StoreNext]_vars

\* ------------------------------------------- MocoApiService: requests ----
\* What the upstream can answer to one GET (mocoApi.ts:160-163, 197-200):
\* fetch() rejects (a network failure), or a response arrives with a status,
\* a body and headers.  The body is empty, not JSON, a JSON value that is
\* not an array, or a JSON array of items.

\* response.status values: a 2xx, the 404 and another non-2xx
Statuses == {200, 404, 500}
\* mocoApi.ts:169  response.ok
IsOk(status) == status >= 200 /\ status <= 299

\* JSON values
JsonNull == [json |-> "null"]
JsonObject == [json |-> "object"]
JsonArray(items) == [json |-> "array", items |-> items]

\* the failures raised inside makeRequest / makeRequestWithHeaders, before
\* they are handed to handleMocoApiError
NetworkFailure == [kind |-> "network"]
ParseFailure == [kind |-> "parse"]
HttpFailure(status) == [kind |-> "http", status |-> status]

\* handleMocoApiError (utils/errorHandler): the message made of a failure.
\* A 404 status becomes the 'Resource not found' message; every other
\* failure becomes a message of its own that does not contain that text.
HandleMocoApiError(raw) ==
    IF raw.kind = "http" /\ raw.status = 404
    THEN [message |-> "Resource not found"]
    ELSE [message |-> "other", of |-> raw]

\* what a call returned or threw
Returned(value) == [st |-> "returned", value |-> value]
Thrown(error) == [st |-> "thrown", error |-> error]
\* a TypeError raised by the JavaScript runtime, not by the request
TypeError == [message |-> "TypeError"]

\* mocoApi.ts:100-111, 113-126  parseResponseBody / tryParseJson of a body
\* (response.text is a function for every real Response)
ParseResponseBody(body) ==
    CASE body.kind = "empty" -> Returned(JsonNull)
      [] body.kind = "malformed" -> Thrown(ParseFailure)
      [] body.kind = "object" -> Returned(JsonObject)
      [] body.kind = "array" -> Returned(JsonArray(body.items))

\* mocoApi.ts:159-176 (makeRequest) and 196-213 (makeRequestWithHeaders):
\* the body is parsed first, then the status is looked at; whatever is
\* thrown inside the try is thrown again as Error(handleMocoApiError(error))
MakeRequest(resp) ==
    IF resp.net THEN Thrown(HandleMocoApiError(NetworkFailure))
    ELSE LET parsed == ParseResponseBody(resp.body) IN
         IF parsed.st = "thrown" THEN Thrown(HandleMocoApiError(parsed.error))
         ELSE IF ~IsOk(resp.status) THEN Thrown(HandleMocoApiError(HttpFailure(resp.status)))
         ELSE Returned(parsed.value)

\* ------------------------------------- MocoApiService.fetchAllPages ------
\* pager is one activation of fetchAllPages (mocoApi.ts:222-255): its local
\* variables currentPage and allItems, the page numbers it has requested,
\* the responses it has received and what it returned or threw.  The loop
\* runs without suspension from the arrival of one response to the next
\* request (or to the return), so that stretch is one action.

\* X-Total and X-Per-Page values a response can carry
XTotals == {0, 2, 3}
XPerPages == {0, 1, 2}
HeaderNames == {"X-Page", "X-Total", "X-Per-Page"}
\* the headers a response can lack: none, one of the three, all three
Lacking == {{}} \cup {{h} : h \in HeaderNames} \cup {HeaderNames}

\* headers.get(name): <<>> for null (header absent), <<value>> otherwise
PageHeaders(page) ==
    {[xPage |-> IF "X-Page" \in m THEN <<>> ELSE <<page>>,
      xTotal |-> IF "X-Total" \in m THEN <<>> ELSE <<t>>,
      xPerPage |-> IF "X-Per-Page" \in m THEN <<>> ELSE <<pp>>] :
        m \in Lacking, t \in XTotals, pp \in XPerPages}

\* the items of a page carry their page and their position on the server
Item(page, no) == [page |-> page, no |-> no]
\* bodies a response to the request for a page can have; the server's order
\* of a page's items is not the order of their numbers
PageBodies(page) ==
    {[kind |-> "empty"], [kind |-> "malformed"], [kind |-> "object"],
     [kind |-> "array", items |-> <<>>],
     [kind |-> "array", items |-> <<Item(page, 2), Item(page, 1)>>]}

\* what can come back for the request of a page
Responses(page) ==
    {[net |-> TRUE]} \cup
    {[net |-> FALSE, status |-> st, body |-> b, headers |-> h] :
        st \in Statuses, b \in PageBodies(page), h \in PageHeaders(page)}

\* Math.ceil(t / pp) for pp > 0
CeilDiv(t, pp) == (t + pp - 1) \div pp

\* BelowTotalPages with the slip of <= for <: one request too many
BelowTotalPagesInclusive(currentPage, t, pp) ==
    IF pp = 0 THEN t > 0 ELSE currentPage <= CeilDiv(t, pp)

\* mocoApi.ts:242-245  currentPage < Math.ceil(totalItems / itemsPerPage);
\* with itemsPerPage = 0 the quotient is Infinity (totalItems > 0: every
\* page number is below it) or NaN (totalItems = 0: no number is below it)
BelowTotalPages(currentPage, t, pp) ==
    IF pp = 0 THEN t > 0 ELSE currentPage < CeilDiv(t, pp)

\* HasAllHeaders with X-Page left out of the test
HasTotalAndPerPage(h) == h.xTotal # <<>> /\ h.xPerPage # <<>>

\* mocoApi.ts:241  if (xPage && xTotal && xPerPage)
HasAllHeaders(h) == h.xPage # <<>> /\ h.xTotal # <<>> /\ h.xPerPage # <<>>

\* mocoApi.ts:237-249  hasMorePages after the response to currentPage
HasMorePages(currentPage, h) ==
    IF HasAllHeaders(h) THEN BelowTotalPages(currentPage, h.xTotal[1], h.xPerPage[1]) ELSE FALSE

\* the variables fetchAllPages leaves alone
besidePager == <<now, store, pendingFetches, fetches, calls, clearedKeys, lastOp, query, lastQuery, config,
                 search, env, mocoConfig, logger, http, direct, ngrok, tool, upstream, keyed>>

\* mocoApi.ts:222-231  the call, up to the request for page 1
FetchAllPages ==
    /\ pager.pc = "idle"
    /\ pager' = [pager EXCEPT !.pc = "awaiting", !.currentPage = 1, !.allItems = <<>>,
                               !.requests = <<1>>]
    /\ UNCHANGED besidePager

\* PageResponse with a failed page request ending the loop (a catch around
\* the request that breaks): the items collected so far are returned
PageResponsePartial(resp) ==
    /\ pager.pc = "awaiting"
    /\ LET r == MakeRequest(resp)
           seen == Append(pager.responses, resp)
       IN
       IF r.st = "thrown"
       THEN pager' = [pager EXCEPT !.pc = "returned", !.responses = seen,
                                   !.result = Returned(pager.allItems)]
       ELSE IF r.value.json # "array"
       THEN pager' = [pager EXCEPT !.pc = "failed", !.responses = seen,
                                   !.result = Thrown(TypeError)]
       ELSE LET items == pager.allItems \o r.value.items IN
            IF HasMorePages(pager.currentPage, resp.headers)
            THEN /\ pager.currentPage < MaxRequests
                 /\ pager' = [pager EXCEPT !.responses = seen, !.allItems = items,
                                           !.currentPage = pager.currentPage + 1,
                                           !.requests = Append(pager.requests, pager.currentPage + 1)]
            ELSE pager' = [pager EXCEPT !.pc = "returned", !.responses = seen,
                                        !.allItems = items,
                                        !.currentPage = pager.currentPage + 1,
                                        !.result = Returned(items)]
    /\ UNCHANGED besidePager

\* mocoApi.ts:228-252  the response to the request for currentPage arrives:
\* makeRequestWithHeaders returns or throws; the items are appended
\* (push(...data) throws a TypeError when data is not iterable); the headers
\* decide whether the next page is requested or allItems is returned
PageResponse(resp) ==
    /\ pager.pc = "awaiting"
    /\ LET r == MakeRequest(resp)
           seen == Append(pager.responses, resp)
       IN
       IF r.st = "thrown"
       THEN pager' = [pager EXCEPT !.pc = "failed", !.responses = seen, !.result = r]
       ELSE IF r.value.json # "array"
       THEN pager' = [pager EXCEPT !.pc = "failed", !.responses = seen,
                                   !.result = Thrown(TypeError)]
       ELSE LET items == pager.allItems \o r.value.items IN
            IF HasMorePages(pager.currentPage, resp.headers)
            THEN /\ pager.currentPage < MaxRequests
                 /\ pager' = [pager EXCEPT !.responses = seen, !.allItems = items,
                                           !.currentPage = pager.currentPage + 1,
                                           !.requests = Append(pager.requests, pager.currentPage + 1)]
            ELSE pager' = [pager EXCEPT !.pc = "returned", !.responses = seen,
                                        !.allItems = items,
                                        !.currentPage = pager.currentPage + 1,
                                        !.result = Returned(items)]
    /\ UNCHANGED besidePager

PageNext ==
    \/ FetchAllPages
    \/ \E resp \in Responses(pager.currentPage) : PageResponse(resp)

PageSpec == Init /\ [][PageNext]_vars

\* ------------------------------------ MocoApiService: cached queries -----
\* A string is the sequence of its characters, so that trim, join and the
\* comparison of keys are computed and not assumed.

\* String.prototype.trim
IsSpace(c) == c = " "
RECURSIVE TrimStart(_)
TrimStart(str) == IF str = <<>> \/ ~IsSpace(Head(str)) THEN str ELSE TrimStart(Tail(str))
RECURSIVE TrimEnd(_)
TrimEnd(str) ==
    IF str = <<>> \/ ~IsSpace(str[Len(str)]) THEN str ELSE TrimEnd(SubSeq(str, 1, Len(str) - 1))
Trim(str) == TrimEnd(TrimStart(str))

\* the collation order of the characters used in tags
CharRank(c) == CASE c = " " -> 0 [] c = "a" -> 1 [] c = "b" -> 2 [] OTHER -> 3

\* a.localeCompare(b) < 0, = 0, > 0
RECURSIVE LocaleCompare(_, _)
LocaleCompare(a, b) ==
    IF a = <<>> THEN (IF b = <<>> THEN 0 ELSE -1)
    ELSE IF b = <<>> THEN 1
    ELSE IF CharRank(Head(a)) < CharRank(Head(b)) THEN -1
    ELSE IF CharRank(Head(a)) > CharRank(Head(b)) THEN 1
    ELSE LocaleCompare(Tail(a), Tail(b))

\* Array.prototype.sort((a, b) => a.localeCompare(b)): stable
RECURSIVE InsertSorted(_, _)
InsertSorted(sorted, x) ==
    IF sorted = <<>> THEN <<x>>
    ELSE IF LocaleCompare(x, Head(sorted)) < 0 THEN <<x>> \o sorted
    ELSE <<Head(sorted)>> \o InsertSorted(Tail(sorted), x)
RECURSIVE SortTags(_)
SortTags(list) ==
    IF list = <<>> THEN <<>>
    ELSE InsertSorted(SortTags(SubSeq(list, 1, Len(list) - 1)), list[Len(list)])

\* Array.prototype.join(sep)
RECURSIVE Join(_, _)
Join(list, sep) ==
    IF list = <<>> THEN <<>>
    ELSE IF Len(list) = 1 THEN list[1]
    ELSE list[1] \o sep \o Join(Tail(list), sep)

\* Boolean(tag) of a string: it is not empty
Truthy(str) == str # <<>>

\* NormalizedTags with .filter(Boolean) left out: empty tags are kept
NormalizedTagsUnfiltered(tagsOpt) ==
    IF tagsOpt = <<>> THEN <<>>
    ELSE <<SortTags([i \in DOMAIN tagsOpt[1] |-> Trim(tagsOpt[1][i])])>>

\* NormalizedTags with .sort(...) left out: the caller's order is kept
NormalizedTagsUnsorted(tagsOpt) ==
    IF tagsOpt = <<>> THEN <<>>
    ELSE <<SelectSeq([i \in DOMAIN tagsOpt[1] |-> Trim(tagsOpt[1][i])], Truthy)>>

\* mocoApi.ts:266-269  tags?.map(tag => tag.trim()).filter(Boolean).sort(...)
\* (tagsOpt is <<>> when tags is undefined, <<list>> otherwise; so is the
\* result)
NormalizedTags(tagsOpt) ==
    IF tagsOpt = <<>> THEN <<>>
    ELSE <<SortTags(SelectSeq([i \in DOMAIN tagsOpt[1] |-> Trim(tagsOpt[1][i])], Truthy))>>

\* mocoApi.ts:283  normalizedTags && normalizedTags.length > 0
HasTags(normalized) == normalized # <<>> /\ Len(normalized[1]) > 0

\* mocoApi.ts:271-277  the cache key of the user directory
UsersCacheKey(includeArchived, tagsOpt) ==
    LET normalized == NormalizedTags(tagsOpt) IN
    Join(<<<<"u", "s", "e", "r", "s">>,
           IF includeArchived THEN <<"1">> ELSE <<"0">>,
           IF HasTags(normalized) THEN Join(normalized[1], <<"|">>) ELSE <<"-">>
         >>, <<":">>)

\* mocoApi.ts:279-285  the query parameters sent upstream (<<>>: not sent)
UsersParams(includeArchived, tagsOpt) ==
    LET normalized == NormalizedTags(tagsOpt) IN
    [include_archived |-> IF includeArchived THEN <<"true">> ELSE <<>>,
     tags |-> IF HasTags(normalized) THEN <<Join(normalized[1], <<",">>)>> ELSE <<>>]

\* mocoApi.ts:259  'projects:assigned'
ProjectsCacheKey == <<"p", "r", "o", "j", "e", "c", "t", "s", ":", "a", "s", "s", "i", "g", "n", "e", "d">>

\* the tags option a caller passes: undefined, the empty list, a blank tag,
\* one tag (bare and padded), a tag twice, two tags in either order
TagsOptions ==
    {<<>>, << <<>> >>, << << <<" ">> >> >>,
     << << <<"a">> >> >>, << << <<" ", "a">> >> >>,
     << << <<"a">>, <<"a">> >> >>,
     << << <<"a">>, <<"b">> >> >>, << << <<"b">>, <<"a">> >> >>}

\* the cache keys the queries can use
ServiceKeys ==
    {ProjectsCacheKey} \cup
    {UsersCacheKey(ia, tagsOpt) : ia \in BOOLEAN, tagsOpt \in TagsOptions}

\* MOCO_API_CACHE_TIME: caching off, caching on
CacheTtlChoices == {0, 1}

\* the service before its first query, for either configuration
ServiceInit ==
    /\ now = 0
    /\ store = [k \in ServiceKeys |-> NoEntry]
    /\ pendingFetches = [k \in ServiceKeys |-> 0]
    /\ fetches = <<>>
    /\ calls = <<>>
    /\ clearedKeys = {}
    /\ lastOp = NoOp
    /\ pager = PagerIdle
    /\ query = QueryIdle
    /\ lastQuery = NoQuery
    /\ config \in {[cacheTtlSeconds |-> ttl] : ttl \in CacheTtlChoices}
    /\ RestInit

\* the variables a cached query leaves alone
besideService == <<lastOp, pager, query, config, search, env, mocoConfig, logger, http, direct, ngrok, tool, upstream, keyed>>

\* mocoApi.ts:265-292  getCachedUsers, up to the return of getOrSet's
\* promise; the fetcher is fetchAllPages('/users', params)
GetCachedUsers(includeArchived, tagsOpt) ==
    /\ GetOrSet(UsersCacheKey(includeArchived, tagsOpt), config.cacheTtlSeconds)
    /\ lastQuery' = [op |-> "searchUsers", includeArchived |-> includeArchived,
                     tags |-> tagsOpt, params |-> UsersParams(includeArchived, tagsOpt)]
    /\ UNCHANGED besideService

\* mocoApi.ts:344-350  searchUsers calls getCachedUsers before anything else
SearchUsers(includeArchived, tagsOpt) == GetCachedUsers(includeArchived, tagsOpt)

\* GetCachedProjects going to the upstream directly, as getProjects does
\* (mocoApi.ts:318-320): no entry is read, none is written
GetProjectsUncached(op) ==
    /\ Len(calls) < MaxCalls
    /\ GetOrSetBypass(ProjectsCacheKey, config.cacheTtlSeconds)
    /\ lastQuery' = [op |-> op]
    /\ UNCHANGED now
    /\ UNCHANGED besideService

\* mocoApi.ts:257-263  getCachedProjects called by op, up to the return of
\* getOrSet's promise; the fetcher is fetchAllPages('/projects/assigned')
GetCachedProjects(op) ==
    /\ GetOrSet(ProjectsCacheKey, config.cacheTtlSeconds)
    /\ lastQuery' = [op |-> op]
    /\ UNCHANGED besideService

\* mocoApi.ts:327-329  searchProjects awaits getCachedProjects first
SearchProjects == GetCachedProjects("searchProjects")

\* mocoApi.ts:409-411  getProjectTasks awaits getCachedProjects first
GetProjectTasks == GetCachedProjects("getProjectTasks")

\* the reactions of the chain of fetch f; fetchAllPages resolves with an
\* array (never with undefined) or fails
ServiceNext ==
    \/ \E ia \in BOOLEAN, tagsOpt \in TagsOptions : SearchUsers(ia, tagsOpt)
    \/ SearchProjects
    \/ GetProjectTasks
    \/ \E f \in DOMAIN fetches : InvokeFetcher(f) /\ UNCHANGED besideCache
    \/ \E f \in DOMAIN fetches, o \in {"ok", "fail"} : BypassSettles(f, o) /\ UNCHANGED besideCache
    \/ \E f \in DOMAIN fetches : OnFulfilled(f, "ok") /\ UNCHANGED besideCache
    \/ \E f \in DOMAIN fetches : OnFinally(f) /\ UNCHANGED besideCache
    \/ \E f \in DOMAIN fetches : OnRejected(f) /\ UNCHANGED besideCache
    \/ Tick /\ UNCHANGED besideCache

ServiceSpec == ServiceInit /\ [][ServiceNext]_vars

\* -------------------------- MocoApiService: holiday and schedules queries --
\* query is one activation of getUserHolidays, getTakenHolidays,
\* getTakenSickDays or getPublicHolidays (mocoApi.ts:440-576): the request
\* it issued, the response that came back and what the call returned or
\* threw.  Each issues one single-page request (makeRequest) and runs
\* without suspension from the arrival of the response to its end.

Years == {2024, 2025}
QueryOps == {"getUserHolidays", "getTakenHolidays", "getTakenSickDays", "getPublicHolidays"}

\* the elements a schedules array can hold: absences of the known codes, an
\* assignment that is no absence, a schedule without assignment, and null
Assignment(type, code, name) == [type |-> type, code |-> code, name |-> name]
Schedule(assignment) == [assignment |-> assignment]
NoAssignment == [none |-> TRUE]
NullElement == [null |-> TRUE]
ScheduleKinds ==
    {Schedule(Assignment("Absence", "4", "Urlaub")),
     Schedule(Assignment("Absence", "3", "Krankheit")),
     Schedule(Assignment("Absence", "2", "Feiertag")),
     Schedule(Assignment("Project", "4", "Urlaub")),
     Schedule(NoAssignment),
     NullElement}

\* bodies of a response to a holiday or schedules request
QueryBodies ==
    {[kind |-> "empty"], [kind |-> "malformed"], [kind |-> "object"]} \cup
    {[kind |-> "array", items |-> items] :
        items \in UNION {[1..n -> ScheduleKinds] : n \in 0..MaxSchedules}}

\* what can come back for the request
QueryResponses ==
    {[net |-> TRUE]} \cup
    {[net |-> FALSE, status |-> st, body |-> b] : st \in Statuses, b \in QueryBodies}

EmptyArray == JsonArray(<<>>)

\* mocoApi.ts:496-498  assignment code '4' named 'Urlaub' among the absences
IsVacationDay(schedule) ==
    /\ schedule.assignment # NoAssignment
    /\ schedule.assignment.type = "Absence"
    /\ schedule.assignment.code = "4" /\ schedule.assignment.name = "Urlaub"

\* mocoApi.ts:531-536
IsSickDay(schedule) ==
    /\ schedule.assignment # NoAssignment
    /\ schedule.assignment.type = "Absence"
    /\ schedule.assignment.code = "3" /\ schedule.assignment.name = "Krankheit"

\* mocoApi.ts:565-569
IsPublicHoliday(schedule) ==
    /\ schedule.assignment # NoAssignment
    /\ schedule.assignment.type = "Absence"
    /\ schedule.assignment.code = "2"

\* the filter of a schedules query
Selected(op, items) ==
    CASE op = "getTakenHolidays" -> SelectSeq(items, IsVacationDay)
      [] op = "getTakenSickDays" -> SelectSeq(items, IsSickDay)
      [] op = "getPublicHolidays" -> SelectSeq(items, IsPublicHoliday)

\* the body of the try block of a schedules query (mocoApi.ts:468-501,
\* 521-539, 557-571): makeRequest throws, or allSchedules.length /
\* allSchedules.filter throws a TypeError on a value that is no array, or
\* schedule.assignment throws one on a null element, or the filtered array
\* is returned
SchedulesTry(op, resp) ==
    LET r == MakeRequest(resp) IN
    IF r.st = "thrown" THEN r
    ELSE IF r.value.json # "array" THEN Thrown(TypeError)
    ELSE IF \E i \in DOMAIN r.value.items : r.value.items[i] = NullElement THEN Thrown(TypeError)
    ELSE Returned(JsonArray(Selected(op, r.value.items)))

\* CatchAll with the catch of getUserHolidays: only 'Resource not found' is
\* turned into an empty array
CatchAllButRethrows(r) ==
    IF r.st = "thrown" /\ r.error.message # "Resource not found" THEN r
    ELSE IF r.st = "thrown" THEN Returned(EmptyArray) ELSE r

\* mocoApi.ts:502-506, 540-544, 572-575  catch (error) { ...; return [] }
CatchAll(r) == IF r.st = "thrown" THEN Returned(EmptyArray) ELSE r

\* mocoApi.ts:445-453  catch (error): [] when the message includes
\* 'Resource not found', the error thrown again otherwise
CatchNotFound(r) ==
    IF r.st = "thrown" /\ r.error.message = "Resource not found"
    THEN Returned(EmptyArray) ELSE r

\* what the query returns or throws for the response
QueryResult(op, resp) ==
    IF op = "getUserHolidays" THEN CatchNotFound(MakeRequest(resp))
    ELSE CatchAll(SchedulesTry(op, resp))

\* the request of a query: /users/holidays?year= or /schedules?from=&to=
QueryRequest(op, year) ==
    IF op = "getUserHolidays"
    THEN [endpoint |-> "/users/holidays", year |-> year]
    ELSE [endpoint |-> "/schedules", from |-> <<year, 1, 1>>, to |-> <<year, 12, 31>>]

\* the variables a holiday or schedules query leaves alone
besideQuery == <<now, store, pendingFetches, fetches, calls, clearedKeys, lastOp, pager, lastQuery, config,
                 search, env, mocoConfig, logger, http, direct, ngrok, tool, upstream, keyed>>

\* the call, up to its request (mocoApi.ts:442, 471, 523, 559)
QueryCall(op, year) ==
    /\ query.pc = "idle"
    /\ query' = [query EXCEPT !.pc = "awaiting", !.op = op,
                               !.request = <<QueryRequest(op, year)>>]
    /\ UNCHANGED besideQuery

\* the response arrives and the call ends
QueryResponse(resp) ==
    /\ query.pc = "awaiting"
    /\ query' = [query EXCEPT !.pc = "done", !.response = <<resp>>,
                               !.result = QueryResult(query.op, resp)]
    /\ UNCHANGED besideQuery

QueryNext ==
    \/ \E op \in QueryOps, year \in Years : QueryCall(op, year)
    \/ \E resp \in QueryResponses : QueryResponse(resp)

QuerySpec == Init /\ [][QueryNext]_vars

\* ------------------------ MocoApiService: searches and task lookup -------
\* search is one activation of searchProjects, searchUsers or
\* getProjectTasks (mocoApi.ts:327-433): its argument, the cached query it
\* awaits, what that query resolved or rejected with, and what the call
\* returned or threw.  Each awaits one cached query and runs without
\* suspension from there to its end.

\* elements of a cached set one activation is given
MaxItems == 2

\* String.prototype.toLowerCase, on the characters used
LowerChar(c) == CASE c = "A" -> "a" [] c = "B" -> "b" [] c = "T" -> "t" [] OTHER -> c
ToLowerCase(str) == [i \in DOMAIN str |-> LowerChar(str[i])]

\* String.prototype.indexOf(sub): the first position, counted from 0, at
\* which sub occurs in str, or -1
IndexOf(str, sub) ==
    LET hits == {i \in 0..(Len(str) - Len(sub)) : SubSeq(str, i + 1, i + Len(sub)) = sub} IN
    IF hits = {} THEN -1 ELSE CHOOSE i \in hits : \A j \in hits : i <= j

\* String.prototype.includes(sub)
Includes(str, sub) == IndexOf(str, sub) # -1

\* the tasks a project carries and the projects of /projects/assigned; a
\* description is <<>> when null
ProjectTask(id, name) == [id |-> id, name |-> name, active |-> TRUE, billable |-> TRUE]
Project(id, name, description, tasks) ==
    [id |-> id, name |-> name, description |-> description, tasks |-> tasks,
     created_at |-> <<"2", "0", "2", "4">>, updated_at |-> <<"2", "0", "2", "5">>]
ProjectChoices ==
    {Project(1, <<"a">>, <<>>, <<ProjectTask(11, <<"x">>), ProjectTask(12, <<"y">>)>>),
     Project(2, <<"A", " ", "b">>, <<"b">>, <<ProjectTask(21, <<"x">>)>>),
     Project(3, <<"b">>, <<"a", " ", "b">>, <<>>)}
\* the project ids a caller asks for: assigned ones and one that never is
ProjectIds == {1, 2, 3, 4}

\* the users of /users; a field is <<>> when undefined, null or ''
User(firstname, lastname, email, tags, unitName) ==
    [firstname |-> firstname, lastname |-> lastname, email |-> email, info |-> <<>>,
     tags |-> tags, unitName |-> unitName, roleName |-> <<>>,
     mobile_phone |-> <<>>, work_phone |-> <<>>]
UserChoices ==
    {User(<<"a">>, <<"B">>, <<>>, <<>>, <<>>),
     User(<<>>, <<>>, <<"b">>, << <<"a">>, <<"b">> >>, <<>>),
     User(<<"b">>, <<>>, <<>>, <<>>, <<"a">>)}

\* the lists of at most n distinct elements of a set
ListsOf(set, n) ==
    {l \in UNION {[1..k -> set] : k \in 0..n} : \A i, j \in DOMAIN l : l[i] = l[j] => i = j}

\* the query strings a caller passes: empty, whitespace only, and texts
SearchQueries ==
    {<<>>, <<" ">>, <<" ", " ">>, <<"a">>, <<"A">>, <<" ", "a", " ">>, <<"b">>, <<"a", " ", "b">>}

\* what the awaited cached query can settle to: the cached set, or the
\* failure of its fetch
CachedOutcomes(op) ==
    {Thrown(HandleMocoApiError(NetworkFailure)), Thrown(TypeError)} \cup
    {Returned(l) : l \in ListsOf(IF op = "searchUsers" THEN UserChoices ELSE ProjectChoices, MaxItems)}

\* mocoApi.ts:331-335  the filter of searchProjects
MatchesProject(project, lowerQuery) ==
    \/ Includes(ToLowerCase(project.name), lowerQuery)
    \/ /\ Truthy(project.description)
       /\ Includes(ToLowerCase(project.description), lowerQuery)

\* mocoApi.ts:331-335  searchProjects after getCachedProjects has resolved
FilterProjects(allProjects, searchQuery) ==
    LET lowerQuery == ToLowerCase(searchQuery) IN
    SelectSeq(allProjects, LAMBDA project : MatchesProject(project, lowerQuery))

\* <<str>> when the string is truthy, <<>> otherwise
Pushed(str) == IF Truthy(str) THEN <<str>> ELSE <<>>

\* mocoApi.ts:358-398  the searchTargets of a user
SearchTargets(user) ==
    Pushed(user.firstname) \o Pushed(user.lastname)
    \o Pushed(Trim(user.firstname \o <<" ">> \o user.lastname))
    \o Pushed(user.email) \o Pushed(user.info)
    \o (IF Len(user.tags) > 0 THEN <<Join(user.tags, <<" ">>)>> ELSE <<>>)
    \o Pushed(user.unitName) \o Pushed(user.roleName)
    \o Pushed(user.mobile_phone) \o Pushed(user.work_phone)

\* mocoApi.ts:400  searchTargets.some(target => target.toLowerCase().includes(normalizedQuery))
MatchesUser(user, normalizedQuery) ==
    \E i \in DOMAIN SearchTargets(user) :
        Includes(ToLowerCase(SearchTargets(user)[i]), normalizedQuery)

\* mocoApi.ts:351-401  searchUsers after getCachedUsers has resolved
FilterUsers(allUsers, searchQuery) ==
    LET normalizedQuery == ToLowerCase(Trim(searchQuery)) IN
    IF Len(normalizedQuery) = 0 THEN allUsers
    ELSE SelectSeq(allUsers, LAMBDA user : MatchesUser(user, normalizedQuery))

\* mocoApi.ts:414  assignedProjects.find(p => p.id === projectId): <<>> for
\* undefined, <<project>> for the first match
FindProject(assignedProjects, projectId) ==
    LET hits == {i \in DOMAIN assignedProjects : assignedProjects[i].id = projectId} IN
    IF hits = {} THEN <<>>
    ELSE <<assignedProjects[CHOOSE i \in hits : \A j \in hits : i <= j]>>

\* mocoApi.ts:417  the error of a project that is not assigned; the message
\* is the three parts of the template
NotAssignedError(projectId) ==
    [message |-> <<"Project ", projectId, " is not assigned to the current user or does not exist.">>]

\* mocoApi.ts:421-432  project.tasks.map(...)
TasksOf(project) ==
    [i \in DOMAIN project.tasks |->
        [id |-> project.tasks[i].id, name |-> project.tasks[i].name,
         active |-> project.tasks[i].active, billable |-> project.tasks[i].billable,
         project |-> [id |-> project.id, name |-> project.name],
         created_at |-> project.created_at, updated_at |-> project.updated_at]]

\* ProjectTasks with the slip of project?.tasks ?? []: an unassigned project
\* has no tasks
ProjectTasksOrEmpty(assignedProjects, projectId) ==
    LET project == FindProject(assignedProjects, projectId) IN
    IF project = <<>> THEN Returned(<<>>) ELSE Returned(TasksOf(project[1]))

\* mocoApi.ts:414-432  getProjectTasks after getCachedProjects has resolved
ProjectTasks(assignedProjects, projectId) ==
    LET project == FindProject(assignedProjects, projectId) IN
    IF project = <<>> THEN Thrown(NotAssignedError(projectId))
    ELSE Returned(TasksOf(project[1]))

\* the cached query an operation awaits
CachedQueryOf(op) == IF op = "searchUsers" THEN "getCachedUsers" ELSE "getCachedProjects"

\* what the operation returns or throws once its cached query has settled
\* to r: a rejection passes through the await
LookupResult(op, arg, r) ==
    IF r.st = "thrown" THEN r
    ELSE CASE op = "searchProjects" -> Returned(FilterProjects(r.value, arg))
           [] op = "searchUsers" -> Returned(FilterUsers(r.value, arg))
           [] op = "getProjectTasks" -> ProjectTasks(r.value, arg)

\* the variables a search or a task lookup leaves alone (the cache engine's
\* part of the cached query is the subject of ServiceSpec)
besideSearch == <<now, store, pendingFetches, fetches, calls, clearedKeys, lastOp, pager, query,
                  lastQuery, config, env, mocoConfig, logger, http, direct, ngrok, tool, upstream, keyed>>

\* mocoApi.ts:329, 350, 411  the call, up to the await of its cached query
LookupCall(op, arg) ==
    /\ search.pc = "idle"
    /\ search' = [search EXCEPT !.pc = "awaiting", !.op = op, !.arg = arg,
                                !.awaited = <<CachedQueryOf(op)>>]
    /\ UNCHANGED besideSearch

\* the cached query settles and the call runs to its end
LookupSettled(r) ==
    /\ search.pc = "awaiting"
    /\ search' = [search EXCEPT !.pc = "done", !.fetched = <<r>>,
                                !.result = LookupResult(search.op, search.arg, r)]
    /\ UNCHANGED besideSearch

LookupNext ==
    \/ \E q \in SearchQueries : LookupCall("searchProjects", q)
    \/ \E q \in SearchQueries : LookupCall("searchUsers", q)
    \/ \E projectId \in ProjectIds : LookupCall("getProjectTasks", projectId)
    \/ \E r \in CachedOutcomes(search.op) : LookupSettled(r)

LookupSpec == Init /\ [][LookupNext]_vars

\* ------------------------- a cached query with its pagination ------------
\* getCachedProjects as the public operations call it (mocoApi.ts:257-263):
\* getOrSet with the fetcher fetchAllPages('/projects/assigned').  The
\* fetcher invocation that is running owns the activation in pager; one
\* pagination is followed at a time, so a bypassing call (whose fetcher is
\* invoked inside the call) is made when no pagination is under way.  After
\* the fetcher has settled pager keeps the record of its last activation.

\* the responses followed here: a network failure, and the statuses 200 and
\* 500 with an empty body or a page of items, announcing three pages of one
\* item or carrying no pagination header
CoreResponses(page) ==
    {resp \in Responses(page) :
        \/ resp.net
        \/ /\ resp.status \in {200, 500}
           /\ resp.body \in {[kind |-> "empty"],
                             [kind |-> "array", items |-> <<Item(page, 2), Item(page, 1)>>]}
           /\ resp.headers \in {[xPage |-> <<page>>, xTotal |-> <<3>>, xPerPage |-> <<1>>],
                                [xPage |-> <<>>, xTotal |-> <<>>, xPerPage |-> <<>>]}}

\* mocoApi.ts:222-231  fetchAllPages invoked as the fetcher: a fresh
\* activation, up to the request for page 1
Activated == [PagerIdle EXCEPT !.pc = "awaiting", !.requests = <<1>>]

\* the variables a cached query and its pagination leave alone
besideCore == <<lastOp, query, lastQuery, config, search, env, mocoConfig, logger, http, direct, ngrok, tool, upstream, keyed>>

\* mocoApi.ts:257-263  getCachedProjects, up to the return of getOrSet's
\* promise; with cacheTtlSeconds <= 0 the fetcher runs inside the call
CoreCall ==
    /\ Bypasses(config.cacheTtlSeconds) => pager.pc = "idle"
    /\ GetOrSet(ProjectsCacheKey, config.cacheTtlSeconds)
    /\ pager' = IF Bypasses(config.cacheTtlSeconds) THEN Activated ELSE pager
    /\ UNCHANGED besideCore

\* cache.ts:104  .then(fetcher) with fetcher = () => fetchAllPages(...)
CoreInvokeFetcher(f) ==
    /\ pager.pc = "idle"
    /\ InvokeFetcher(f)
    /\ pager' = Activated
    /\ UNCHANGED besideCore

\* mocoApi.ts:228-252  the response to the request for currentPage
CorePageResponse(resp) == PageResponse(resp)

\* fetchAllPages has returned or thrown: the fetcher's promise settles and
\* the reaction of getOrSet runs (cache.ts:90, 105-111)
CoreSettled(f) ==
    /\ pager.pc \in {"returned", "failed"}
    /\ IF Bypasses(fetches[f].ttl)
       THEN BypassSettles(f, IF pager.pc = "returned" THEN "ok" ELSE "fail")
       ELSE IF pager.pc = "returned" THEN OnFulfilled(f, "ok") ELSE OnRejected(f)
    /\ pager' = [pager EXCEPT !.pc = "idle"]
    /\ UNCHANGED besideCore

CoreNext ==
    \/ CoreCall
    \/ \E f \in DOMAIN fetches : CoreInvokeFetcher(f)
    \/ \E resp \in CoreResponses(pager.currentPage) : CorePageResponse(resp)
    \/ \E f \in DOMAIN fetches : CoreSettled(f)
    \/ \E f \in DOMAIN fetches : OnFinally(f) /\ UNCHANGED besideCache
    \/ Tick /\ UNCHANGED besideCache

CoreSpec == ServiceInit /\ [][CoreNext]_vars

\* ------------------------------- MocoApiService: request logging ---------
\* Every request of makeRequest and makeRequestWithHeaders is handed to
\* logHttpRequest with the default headers before it is issued
\* (mocoApi.ts:156-157, 193-194).  logger counts the requests issued and
\* keeps the entries written.  The level is read from LOG_LEVEL each time
\* an entry is about to be written (logger.ts:17-20), so it is an input of
\* every request.

\* the length of the longest API key
MaxTokenLen == 10
\* requests issued in one behaviour
MaxLogged == 2

\* the characters of API keys
TokenChars == {"a", "b"}
\* config.apiKey: getMocoConfig accepts every string that is not empty
ApiKeys == UNION {[1..n -> TokenChars] : n \in 1..MaxTokenLen}

\* mocoApi.ts:31  `Token token=${this.config.apiKey}`
AuthorizationOf(apiKey) ==
    <<"T", "o", "k", "e", "n", " ", "t", "o", "k", "e", "n", "=">> \o apiKey

\* mocoApi.ts:29-35  defaultHeaders
DefaultHeaders(apiKey) ==
    [Authorization |-> AuthorizationOf(apiKey),
     ContentType |-> "application/json", Accept |-> "application/json"]

\* 'token='
TokenEquals == <<"t", "o", "k", "e", "n", "=">>
\* '[REDACTED]'
Redacted == <<"[", "R", "E", "D", "A", "C", "T", "E", "D", "]">>

\* String.prototype.slice(from) and slice(from, to) for 0 <= from <= to
Slice(str, from, to) == SubSeq(str, from + 1, IF to > Len(str) THEN Len(str) ELSE to)
\* String.prototype.slice(-n)
SliceLast(str, n) == IF n >= Len(str) THEN str ELSE SubSeq(str, Len(str) - n + 1, Len(str))
\* String.prototype.repeat
Repeat(c, n) == [i \in 1..n |-> c]
\* Math.max
Max(a, b) == IF a >= b THEN a ELSE b

\* MaskToken with the slip of tokenValue.length < 8: a token of 8 characters
\* keeps its first 4 and its last 4
MaskTokenBelowEight(tokenValue) ==
    IF Len(tokenValue) < 8
    THEN Repeat("*", Max(Len(tokenValue), 4))
    ELSE Slice(tokenValue, 0, 4) \o <<".", ".", ".">> \o SliceLast(tokenValue, 4)

\* mocoApi.ts:54-59  what is written in place of the token
MaskToken(tokenValue) ==
    IF Len(tokenValue) <= 8
    THEN Repeat("*", Max(Len(tokenValue), 4))
    ELSE Slice(tokenValue, 0, 4) \o <<".", ".", ".">> \o SliceLast(tokenValue, 4)

\* mocoApi.ts:37-61  sanitizeRequestHeaders
SanitizeRequestHeaders(headers) ==
    IF ~Truthy(headers.Authorization) THEN headers
    ELSE LET authValue == headers.Authorization
             tokenIndex == IndexOf(ToLowerCase(authValue), TokenEquals)
         IN
         IF tokenIndex = -1 THEN [headers EXCEPT !.Authorization = Redacted]
         ELSE LET tokenPrefix == Slice(authValue, 0, tokenIndex + Len(TokenEquals))
                  tokenValue == Slice(authValue, tokenIndex + Len(TokenEquals), Len(authValue))
              IN [headers EXCEPT !.Authorization = tokenPrefix \o MaskToken(tokenValue)]

\* environment.ts:34, logger.ts:3-8
LogLevels == {"debug", "info", "warn", "error"}
LevelPriority(level) ==
    CASE level = "debug" -> 10 [] level = "info" -> 20 [] level = "warn" -> 30 [] level = "error" -> 40

\* logger.ts:17-20  shouldLog
ShouldLog(level, currentLevel) == LevelPriority(level) >= LevelPriority(currentLevel)

\* mocoApi.ts:76-82  the entry of a request
RequestEntry(headers) ==
    [message |-> "MoCo API request", method |-> "GET", headers |-> SanitizeRequestHeaders(headers)]

\* the service of each API key
LogInit ==
    /\ CacheInit
    /\ lastOp = NoOp
    /\ pager = PagerIdle
    /\ query = QueryIdle
    /\ lastQuery = NoQuery
    /\ config \in {[apiKey |-> apiKey, cacheTtlSeconds |-> 1] : apiKey \in ApiKeys}
    /\ RestInit

\* the variables logging leaves alone
besideLogger == <<now, store, pendingFetches, fetches, calls, clearedKeys, lastOp, pager, query,
                  lastQuery, config, search, env, mocoConfig, http, direct, ngrok, tool, upstream, keyed>>

\* mocoApi.ts:71-83, 156-157  logHttpRequest for one request, LOG_LEVEL
\* being currentLevel
LogHttpRequest(currentLevel) ==
    /\ logger.requests < MaxLogged
    /\ logger' = [requests |-> logger.requests + 1,
                  entries |-> IF ShouldLog("debug", currentLevel)
                              THEN Append(logger.entries, RequestEntry(DefaultHeaders(config.apiKey)))
                              ELSE logger.entries]
    /\ UNCHANGED besideLogger

LogNext == \E currentLevel \in LogLevels : LogHttpRequest(currentLevel)

LogSpec == LogInit /\ [][LogNext]_vars

\* ----------------------------------------------------- getMocoConfig -----
\* env is process.env as getMocoConfig reads it (environment.ts:50-52): a
\* variable is <<>> when undefined and <<str>> when set to str.  mocoConfig
\* is what the call returned or threw.

\* environment.ts:42
DEFAULT_CACHE_TTL_SECONDS == 300

\* the values of the three variables
ApiKeyValues == {<<>>, << <<>> >>, << <<"k">> >>}
SubdomainValues ==
    {<<>>, << <<>> >>, << <<"a", "c">> >>, << <<"a", ".", "c">> >>, << <<".">> >>,
     << <<"h", "t", "t", "p">> >>, << <<"a", "h", "t", "t", "p", "s">> >>,
     << <<"h", "t", "t">> >>, << <<"H", "T", "T", "P">> >>}
CacheTimeValues ==
    {<<>>, << <<>> >>, << <<"0">> >>, << <<"1">> >>, << <<"1", "0">> >>, << <<"-", "1">> >>,
     << <<"a">> >>, << <<"a", "1">> >>, << <<"1", "a">> >>, << <<"1", ".", "5">> >>}
Envs ==
    {[MOCO_API_KEY |-> k, MOCO_SUBDOMAIN |-> s, MOCO_API_CACHE_TIME |-> c] :
        k \in ApiKeyValues, s \in SubdomainValues, c \in CacheTimeValues}

\* the decimal digits and their values
Digits == {"0", "1", "2", "3", "4", "5", "6", "7", "8", "9"}
DigitValue(c) ==
    CASE c = "0" -> 0 [] c = "1" -> 1 [] c = "2" -> 2 [] c = "3" -> 3 [] c = "4" -> 4
      [] c = "5" -> 5 [] c = "6" -> 6 [] c = "7" -> 7 [] c = "8" -> 8 [] c = "9" -> 9

\* the number a string of digits denotes
RECURSIVE DecimalValue(_)
DecimalValue(digits) ==
    IF digits = <<>> THEN 0
    ELSE 10 * DecimalValue(SubSeq(digits, 1, Len(digits) - 1)) + DigitValue(digits[Len(digits)])

\* the longest prefix of str made of digits
RECURSIVE DigitPrefix(_)
DigitPrefix(str) ==
    IF str = <<>> \/ Head(str) \notin Digits THEN <<>> ELSE <<Head(str)>> \o DigitPrefix(Tail(str))

\* Number.parseInt(str, 10): leading whitespace is skipped, a sign is read,
\* then the longest run of digits; what follows the digits is ignored;
\* <<>> for NaN (no digit read), <<n>> otherwise
ParseInt(str) ==
    LET s == TrimStart(str)
        negative == s # <<>> /\ Head(s) = "-"
        unsigned == IF s # <<>> /\ Head(s) \in {"+", "-"} THEN Tail(s) ELSE s
        digits == DigitPrefix(unsigned)
    IN IF digits = <<>> THEN <<>>
       ELSE <<IF negative THEN 0 - DecimalValue(digits) ELSE DecimalValue(digits)>>

\* JavaScript truthiness of an environment variable: set and not ''
IsSet(valueOpt) == valueOpt # <<>> /\ valueOpt[1] # <<>>

\* the messages of the errors getMocoConfig throws (environment.ts:55, 59,
\* 64, 73)
ApiKeyRequired == [message |-> "MOCO_API_KEY environment variable is required"]
SubdomainRequired == [message |-> "MOCO_SUBDOMAIN environment variable is required"]
SubdomainFormat ==
    [message |-> "MOCO_SUBDOMAIN should only contain the subdomain name (e.g., \"yourcompany\", not \"yourcompany.mocoapp.com\")"]
CacheTimeInvalid ==
    [message |-> "MOCO_API_CACHE_TIME must be a non-negative integer representing seconds."]

\* environment.ts:82  `https://${subdomain}.mocoapp.com/api/v1`
BaseUrl(subdomain) ==
    <<"h", "t", "t", "p", "s", ":", "/", "/">> \o subdomain
    \o <<".", "m", "o", "c", "o", "a", "p", "p", ".", "c", "o", "m", "/", "a", "p", "i", "/", "v", "1">>

\* environment.ts:67-77  the cache TTL of the environment
CacheTtlOf(cacheTtlEnv) ==
    IF cacheTtlEnv = <<>> THEN Returned(DEFAULT_CACHE_TTL_SECONDS)
    ELSE LET parsed == ParseInt(cacheTtlEnv[1]) IN
         IF parsed = <<>> \/ parsed[1] < 0 THEN Thrown(CacheTimeInvalid)
         ELSE Returned(parsed[1])

\* environment.ts:63  subdomain.includes('.') || subdomain.includes('http')
HasDomainParts(subdomain) ==
    Includes(subdomain, <<".">>) \/ Includes(subdomain, <<"h", "t", "t", "p">>)

\* GetMocoConfig with the first two checks in the other order
GetMocoConfigSubdomainFirst(e) ==
    IF ~IsSet(e.MOCO_SUBDOMAIN) THEN Thrown(SubdomainRequired)
    ELSE IF ~IsSet(e.MOCO_API_KEY) THEN Thrown(ApiKeyRequired)
    ELSE IF HasDomainParts(e.MOCO_SUBDOMAIN[1]) THEN Thrown(SubdomainFormat)
    ELSE LET ttl == CacheTtlOf(e.MOCO_API_CACHE_TIME) IN
         IF ttl.st = "thrown" THEN ttl
         ELSE Returned([apiKey |-> e.MOCO_API_KEY[1], subdomain |-> e.MOCO_SUBDOMAIN[1],
                        baseUrl |-> BaseUrl(e.MOCO_SUBDOMAIN[1]), cacheTtlSeconds |-> ttl.value])

\* environment.ts:49-85  getMocoConfig
GetMocoConfig(e) ==
    IF ~IsSet(e.MOCO_API_KEY) THEN Thrown(ApiKeyRequired)
    ELSE IF ~IsSet(e.MOCO_SUBDOMAIN) THEN Thrown(SubdomainRequired)
    ELSE IF HasDomainParts(e.MOCO_SUBDOMAIN[1]) THEN Thrown(SubdomainFormat)
    ELSE LET ttl == CacheTtlOf(e.MOCO_API_CACHE_TIME) IN
         IF ttl.st = "thrown" THEN ttl
         ELSE Returned([apiKey |-> e.MOCO_API_KEY[1], subdomain |-> e.MOCO_SUBDOMAIN[1],
                        baseUrl |-> BaseUrl(e.MOCO_SUBDOMAIN[1]), cacheTtlSeconds |-> ttl.value])

\* the process with each environment, before getMocoConfig is called
ConfigInit ==
    /\ CacheInit
    /\ lastOp = NoOp
    /\ pager = PagerIdle
    /\ query = QueryIdle
    /\ lastQuery = NoQuery
    /\ config = DefaultConfig
    /\ search = SearchIdle
    /\ env \in Envs
    /\ mocoConfig = NotLoaded
    /\ logger = NoLog
    /\ http = HttpDown
    /\ direct = DirectIdle
    /\ ngrok = NgrokOff
    /\ tool = ToolIdle
    /\ upstream = NoAnswer
    /\ keyed = <<>>

\* the variables getMocoConfig leaves alone
besideConfig == <<now, store, pendingFetches, fetches, calls, clearedKeys, lastOp, pager, query,
                  lastQuery, config, search, env, logger, http, direct, ngrok, tool, upstream, keyed>>

\* a call of getMocoConfig
LoadMocoConfig ==
    /\ mocoConfig = NotLoaded
    /\ mocoConfig' = GetMocoConfig(env)
    /\ UNCHANGED besideConfig

ConfigNext == LoadMocoConfig

ConfigSpec == ConfigInit /\ [][ConfigNext]_vars

\* ------------------------------------------------- the HTTP server -------
\* http is the server startHttpServer creates (environment.ts:191-371): its
\* base path, the last request its handler was given with the response that
\* request got, the number of requests served and the number of calls of
\* transport.handleRequest.  The handler runs without suspension up to the
\* await of transport.handleRequest, and the transport's answer ends it, so
\* one request is one action.  The handler's debug logging (environment.ts:
\* 232-269) writes to the console only and is left out.

\* requests served in one behaviour
MaxHttpRequests == 2

\* environment.ts:38
DEFAULT_HTTP_BASE_PATH == <<"/", "s", "s", "e">>

\* String.prototype.startsWith / endsWith
StartsWith(str, prefix) == Len(prefix) <= Len(str) /\ SubSeq(str, 1, Len(prefix)) = prefix
EndsWith(str, suffix) ==
    Len(suffix) <= Len(str) /\ SubSeq(str, Len(str) - Len(suffix) + 1, Len(str)) = suffix

\* environment.ts:98-111  normalizeHttpBasePath
NormalizeHttpBasePath(pathValue) ==
    IF ~IsSet(pathValue) THEN DEFAULT_HTTP_BASE_PATH
    ELSE LET trimmed == Trim(pathValue[1]) IN
         IF trimmed = <<>> THEN DEFAULT_HTTP_BASE_PATH
         ELSE LET withLeadingSlash ==
                      IF StartsWith(trimmed, <<"/">>) THEN trimmed ELSE <<"/">> \o trimmed
              IN IF Len(withLeadingSlash) = 1 THEN <<"/">>
                 ELSE IF EndsWith(withLeadingSlash, <<"/">>)
                      THEN SubSeq(withLeadingSlash, 1, Len(withLeadingSlash) - 1)
                      ELSE withLeadingSlash

\* options.path and MCP_HTTP_PATH: undefined, '', and paths with and without
\* the slashes and the padding that normalizeHttpBasePath removes
OptionPaths ==
    {<<>>, << <<>> >>, << <<"/">> >>, << <<"s">> >>, << <<"/", "s">> >>,
     << <<"/", "s", "/">> >>, << <<" ", "/", "s", " ">> >>}
EnvPaths == {<<>>, << <<"/">> >>, << <<"s", "/">> >>}

\* environment.ts:119, 195  basePath = normalizeHttpBasePath(options.path ??
\* envConfig.basePath)
BasePathOf(optionsPath, envPath) ==
    NormalizeHttpBasePath(IF optionsPath # <<>> THEN optionsPath
                          ELSE <<NormalizeHttpBasePath(envPath)>>)

\* the requests: new URL(req.url, base) throws (parses = FALSE), or yields a
\* pathname and a search
Pathnames ==
    {<<"/">>, <<"/", "s">>, <<"/", "s", "/">>, <<"/", "s", "/", "x">>, <<"/", "s", "x">>,
     <<"/", "x">>, <<"/", "x", "/", "s">>, <<"/", "s", "s", "e">>,
     <<"/", "s", "s", "e", "/", "x">>, <<"/", "s", "s", "e", "x">>}
Searches == {<<>>, <<"?", "q">>}
HttpRequests ==
    {[parses |-> FALSE]} \cup
    {[parses |-> TRUE, pathname |-> p, search |-> s] : p \in Pathnames, s \in Searches}

\* MatchesBasePath with startsWith(basePath) in place of
\* startsWith(`${basePath}/`)
MatchesBasePathPrefix(basePath, pathname) ==
    IF basePath = <<"/">> THEN TRUE
    ELSE pathname = basePath \/ StartsWith(pathname, basePath)

\* environment.ts:247-249  matchesBasePath
MatchesBasePath(basePath, pathname) ==
    IF basePath = <<"/">> THEN TRUE
    ELSE pathname = basePath \/ StartsWith(pathname, basePath \o <<"/">>)

\* environment.ts:273-281  the answer to a request outside the base path
NotFoundResponse ==
    [by |-> "server", status |-> 404,
     body |-> [jsonrpc |-> "2.0", error |-> [code |-> -32601, message |-> "Not Found"], id |-> "null"]]
\* environment.ts:300-309  the answer of the catch
InternalErrorResponse ==
    [by |-> "server", status |-> 500,
     body |-> [jsonrpc |-> "2.0", error |-> [code |-> -32000, message |-> "Internal server error"],
               id |-> "null"]]

\* environment.ts:288-292  req.url as the transport is given it
ForwardedUrl(basePath, req) ==
    IF basePath = <<"/">> THEN req.pathname \o req.search
    ELSE LET sliced == SubSeq(req.pathname, Len(basePath) + 1, Len(req.pathname))
             remainder == IF sliced = <<>> THEN <<"/">> ELSE sliced
             normalizedRemainder ==
                 IF StartsWith(remainder, <<"/">>) THEN remainder ELSE <<"/">> \o remainder
         IN normalizedRemainder \o req.search

\* what transport.handleRequest does with a request: it answers, or it
\* throws before any header is sent
TransportOutcomes == {"answered", "threw"}

\* the variables the HTTP server leaves alone
besideHttp == <<now, store, pendingFetches, fetches, calls, clearedKeys, lastOp, pager, query,
                lastQuery, config, search, env, mocoConfig, logger, direct, ngrok, tool, upstream, keyed>>

\* environment.ts:191-319  startHttpServer, up to listening
StartHttpServer(optionsPath, envPath) ==
    /\ http.pc = "down"
    /\ http' = [http EXCEPT !.pc = "listening", !.basePath = BasePathOf(optionsPath, envPath)]
    /\ UNCHANGED besideHttp

\* environment.ts:227-314  the request handler for one request
HandleRequest(req, outcome) ==
    /\ http.pc = "listening"
    /\ http.served < MaxHttpRequests
    /\ LET handed == req.parses /\ MatchesBasePath(http.basePath, req.pathname)
           response ==
               IF ~req.parses THEN InternalErrorResponse
               ELSE IF ~handed THEN NotFoundResponse
               ELSE IF outcome = "threw" THEN InternalErrorResponse
               ELSE [by |-> "transport", url |-> ForwardedUrl(http.basePath, req)]
       IN http' = [http EXCEPT !.request = <<req>>, !.response = <<response>>,
                               !.served = http.served + 1,
                               !.handled = IF handed THEN http.handled + 1 ELSE http.handled]
    /\ UNCHANGED besideHttp

HttpNext ==
    \/ \E optionsPath \in OptionPaths, envPath \in EnvPaths : StartHttpServer(optionsPath, envPath)
    \/ \E req \in HttpRequests, outcome \in TransportOutcomes : HandleRequest(req, outcome)

HttpSpec == Init /\ [][HttpNext]_vars

\* ------------------- MocoApiService: direct operations beside the cache --
\* direct is one activation of getProjects, getActivities or
\* getUserPresences (mocoApi.ts:301-320, 584-589): the request parameters it
\* hands to fetchAllPages and what it returned or threw.  Each calls
\* fetchAllPages itself; the activation in pager is the direct operation's
\* while direct.pc = "awaiting".  The cached query of 'projects:assigned'
\* runs beside it.  One direct operation or one holiday or schedules query
\* is followed per behaviour, called in any state of the cache.

\* project ids handed to getActivities: none, 0 (falsy) and a real id
ActivityProjectIds == {<<>>, <<0>>, <<7>>}
\* the date range of a call
DateRange == [from |-> <<2024, 1, 1>>, to |-> <<2024, 1, 31>>]

\* the responses a query beside the cache gets: a network failure and a 200
\* with an empty array
DirectQueryResponses ==
    {[net |-> TRUE],
     [net |-> FALSE, status |-> 200, body |-> [kind |-> "array", items |-> <<>>]]}

\* the responses a page request gets here: a network failure, and a 200 with
\* a page of items that announces three pages of one item or carries no
\* pagination header
DirectResponses(page) ==
    {resp \in CoreResponses(page) :
        \/ resp.net
        \/ resp.status = 200 /\ resp.body.kind = "array"}

\* the variables a direct operation leaves alone, the cache aside
besideDirect == <<lastOp, query, lastQuery, config, search, env, mocoConfig, logger, http, ngrok, tool, upstream, keyed>>

\* a direct operation calls fetchAllPages(endpoint, params), up to the
\* request for page 1
DirectCall(op, endpoint, params) ==
    /\ direct.pc = "idle" /\ query.pc = "idle"
    /\ pager.pc = "idle"
    /\ direct' = [pc |-> "awaiting", op |-> op,
                  request |-> [endpoint |-> endpoint, params |-> params],
                  result |-> [st |-> "none"]]
    /\ pager' = Activated
    /\ UNCHANGED <<now, store, pendingFetches, fetches, calls, clearedKeys>>
    /\ UNCHANGED besideDirect

\* GetProjects served by getCachedProjects (the list of assigned projects
\* taken through cache.getOrSet)
GetProjectsThroughCache ==
    /\ direct.pc = "idle" /\ query.pc = "idle"
    /\ pager.pc = "idle"
    /\ GetOrSet(ProjectsCacheKey, config.cacheTtlSeconds)
    /\ direct' = [pc |-> "awaiting", op |-> "getProjects",
                  request |-> [endpoint |-> "/projects/assigned", params |-> <<>>],
                  result |-> [st |-> "none"]]
    /\ pager' = IF Bypasses(config.cacheTtlSeconds) THEN Activated ELSE pager
    /\ UNCHANGED besideDirect

\* mocoApi.ts:318-320  getProjects
GetProjects == DirectCall("getProjects", "/projects/assigned", <<>>)

\* mocoApi.ts:301-312  getActivities: project_id is sent when projectId is
\* truthy
GetActivities(projectId) ==
    DirectCall("getActivities", "/activities",
               [from |-> DateRange.from, to |-> DateRange.to,
                project_id |-> IF projectId # <<>> /\ projectId[1] # 0 THEN projectId ELSE <<>>])

\* mocoApi.ts:584-589  getUserPresences
GetUserPresences ==
    DirectCall("getUserPresences", "/users/presences",
               [from |-> DateRange.from, to |-> DateRange.to])

\* mocoApi.ts:228-252  the response to a page request of the direct operation
DirectPageResponse(resp) ==
    /\ direct.pc = "awaiting"
    /\ PageResponse(resp)

\* fetchAllPages has returned or thrown: the direct operation returns or
\* throws the same
DirectReturn ==
    /\ direct.pc = "awaiting"
    /\ pager.pc \in {"returned", "failed"}
    /\ direct' = [direct EXCEPT !.pc = "done", !.result = pager.result]
    /\ pager' = [pager EXCEPT !.pc = "idle"]
    /\ UNCHANGED <<now, store, pendingFetches, fetches, calls, clearedKeys>>
    /\ UNCHANGED besideDirect

\* the cached query's page responses (CorePageResponse) belong to a running
\* fetcher invocation
DirectNext ==
    \/ direct.pc # "awaiting" /\ CoreCall
    \/ \E f \in DOMAIN fetches : CoreInvokeFetcher(f)
    \/ \E resp \in DirectResponses(pager.currentPage) :
           direct.pc # "awaiting" /\ CorePageResponse(resp)
    \/ \E f \in DOMAIN fetches : CoreSettled(f)
    \/ \E f \in DOMAIN fetches : OnFinally(f) /\ UNCHANGED besideCache
    \/ Tick /\ UNCHANGED besideCache
    \/ GetProjects
    \/ \E projectId \in ActivityProjectIds : GetActivities(projectId)
    \/ GetUserPresences
    \/ \E resp \in DirectResponses(pager.currentPage) : DirectPageResponse(resp)
    \/ DirectReturn
    \/ \E op \in QueryOps : direct.pc = "idle" /\ QueryCall(op, 2024)
    \/ \E resp \in DirectQueryResponses : QueryResponse(resp)

DirectSpec == ServiceInit /\ [][DirectNext]_vars

\* --------------------- fetchAllPages against an upstream that answers ----
\* The loop of fetchAllPages (mocoApi.ts:227-252) with every page request
\* answered successfully.  upstream is the answer under way: the upstream
\* chooses it when the request has been issued, with header values of its
\* own choice on every page, and the answer then arrives.  The loop has no
\* bound of its own; it is followed through MaxRequests requests.

\* successful answers: status 200 and an array body
SuccessResponses(page) ==
    {resp \in Responses(page) : ~resp.net /\ resp.status = 200 /\ resp.body.kind = "array"}

\* the variables the upstream's choice leaves alone
besideUpstream == <<now, store, pendingFetches, fetches, calls, clearedKeys, lastOp, pager, query,
                    lastQuery, config, search, env, mocoConfig, logger, http, direct, ngrok, tool, keyed>>

\* the request last issued has no answer under way
Unanswered == pager.pc = "awaiting" /\ upstream.to # Len(pager.requests)

\* the upstream answers the request last issued
UpstreamAnswers(resp) ==
    /\ Unanswered
    /\ upstream' = [to |-> Len(pager.requests), response |-> resp]
    /\ UNCHANGED besideUpstream

\* mocoApi.ts:228-252  the answer under way arrives
AnswerArrives ==
    /\ pager.pc = "awaiting" /\ upstream.to = Len(pager.requests)
    /\ PageResponse(upstream.response)

LoopNext ==
    \/ FetchAllPages
    \/ \E resp \in SuccessResponses(pager.currentPage) : UpstreamAnswers(resp)
    \/ AnswerArrives

\* Every request is answered, and an answer under way arrives (the promise
\* of fetch settles and the continuation of the await runs).
LoopSpec ==
    /\ Init /\ [][LoopNext]_vars
    /\ WF_vars(\E resp \in SuccessResponses(pager.currentPage) : UpstreamAnswers(resp))
    /\ WF_vars(AnswerArrives)

\* ------------------------ getCachedUsers: cache key and upstream query ---
\* keyed holds, for the calls of getCachedUsers made, the arguments with the
\* cache key and the query parameters computed from them (mocoApi.ts:
\* 266-285), for tags that hold the characters the key is built with.

\* calls of getCachedUsers followed in one behaviour
MaxKeyed == 2

\* the tags option of a call: undefined, the tag '-', a tag holding '|', a
\* tag holding ',', and two tags
KeyTagsOptions ==
    {<<>>, << << <<"-">> >> >>, << << <<"a", "|", "b">> >> >>, << << <<"a", ",", "b">> >> >>,
     << << <<"a">>, <<"b">> >> >>}

\* the variables the computation of the key leaves alone
besideKeyed == <<now, store, pendingFetches, fetches, calls, clearedKeys, lastOp, pager, query,
                 lastQuery, config, search, env, mocoConfig, logger, http, direct, ngrok, tool,
                 upstream>>

\* mocoApi.ts:266-285  getCachedUsers, up to the call of cache.getOrSet
ComputeUsersKey(includeArchived, tagsOpt) ==
    /\ Len(keyed) < MaxKeyed
    /\ keyed' = Append(keyed, [includeArchived |-> includeArchived, tags |-> tagsOpt,
                               cacheKey |-> UsersCacheKey(includeArchived, tagsOpt),
                               params |-> UsersParams(includeArchived, tagsOpt)])
    /\ UNCHANGED besideKeyed

KeyNext == \E includeArchived \in BOOLEAN, tagsOpt \in KeyTagsOptions :
               ComputeUsersKey(includeArchived, tagsOpt)

KeySpec == Init /\ [][KeyNext]_vars

\* --------------------------------- the HTTP server: ngrok and shutdown ----
\* ngrok is the tunnel of startHttpServer (environment.ts:325-355): the
\* state of the promise of connect(), the variable ngrokListener (<<>> for
\* undefined), the tunnel itself and the position of shutdown().  shutdown
\* is called on the returned controls; the server's request handler runs
\* until httpServer.close().

\* options.ngrokEnabled ?? envConfig.ngrokEnabled
NgrokChoices == BOOLEAN
\* what ngrokListener.close() does: the tunnel is closed, or the call
\* rejects and the tunnel stays as it is
CloseOutcomes == {"closed", "threw"}

\* the variables the tunnel and the shutdown leave alone, http aside
besideNgrok == <<now, store, pendingFetches, fetches, calls, clearedKeys, lastOp, pager, query,
                 lastQuery, config, search, env, mocoConfig, logger, direct, tool, upstream, keyed>>

\* environment.ts:191-338  startHttpServer: the server listens and, with
\* ngrok enabled, connect() is called and not awaited
StartHttpServerNgrok(optionsPath, envPath, ngrokEnabled) ==
    /\ http.pc = "down"
    /\ http' = [http EXCEPT !.pc = "listening", !.basePath = BasePathOf(optionsPath, envPath)]
    /\ ngrok' = [ngrok EXCEPT !.connect = IF ngrokEnabled THEN "pending" ELSE "none"]
    /\ UNCHANGED besideNgrok

\* environment.ts:328-334  connect() resolves with the listener of the
\* tunnel it has established; the reaction assigns ngrokListener
ConnectResolves ==
    /\ ngrok.connect = "pending"
    /\ ngrok' = [ngrok EXCEPT !.connect = "established", !.tunnel = "open",
                              !.ngrokListener = <<"listener">>]
    /\ UNCHANGED <<http>> /\ UNCHANGED besideNgrok

\* environment.ts:335-337  connect() rejects: no tunnel
ConnectRejects ==
    /\ ngrok.connect = "pending"
    /\ ngrok' = [ngrok EXCEPT !.connect = "failed"]
    /\ UNCHANGED <<http>> /\ UNCHANGED besideNgrok

\* environment.ts:340-344  shutdown(), up to the await of httpServer.close
Shutdown ==
    /\ http.pc = "listening"
    /\ ngrok.shutdown = "none"
    /\ http' = [http EXCEPT !.pc = "closed"]
    /\ ngrok' = [ngrok EXCEPT !.shutdown = "closing"]
    /\ UNCHANGED besideNgrok

\* environment.ts:344-347  the server, the transport and the MCP server are
\* closed; if (ngrokListener) the tunnel's close() is called and awaited
ShutdownContinues ==
    /\ ngrok.shutdown = "closing"
    /\ ngrok' = [ngrok EXCEPT !.shutdown = IF ngrok.ngrokListener # <<>>
                                           THEN "closingTunnel" ELSE "done"]
    /\ UNCHANGED <<http>> /\ UNCHANGED besideNgrok

\* environment.ts:348-353  ngrokListener.close() settles; a rejection is
\* caught and logged
TunnelCloseSettles(outcome) ==
    /\ ngrok.shutdown = "closingTunnel"
    /\ ngrok' = [ngrok EXCEPT !.shutdown = "done",
                              !.tunnel = IF outcome = "closed" THEN "closed" ELSE ngrok.tunnel]
    /\ UNCHANGED <<http>> /\ UNCHANGED besideNgrok

NgrokNext ==
    \/ \E optionsPath \in {<<>>, << <<"/">> >>}, ngrokEnabled \in NgrokChoices :
           StartHttpServerNgrok(optionsPath, <<>>, ngrokEnabled)
    \/ \E req \in HttpRequests, outcome \in TransportOutcomes : HandleRequest(req, outcome)
    \/ ConnectResolves
    \/ ConnectRejects
    \/ Shutdown
    \/ ShutdownContinues
    \/ \E outcome \in CloseOutcomes : TunnelCloseSettles(outcome)

NgrokSpec == Init /\ [][NgrokNext]_vars

\* ----------------------------------------------- the search_users tool ---
\* searchUsersTool.handler (tools/userTools.ts:35-64) over the service's
\* searchUsers.  tool is the handler's activation: its params, whether
\* new MocoApiService() has run to its end, and what the returned promise
\* settled to.  The service call the handler awaits is the activation in
\* search; its cached query settles to one of CachedOutcomes.

\* the environments the process is started in: nothing set, and a complete
\* configuration
ToolEnvs ==
    {EmptyEnv,
     [MOCO_API_KEY |-> << <<"k">> >>, MOCO_SUBDOMAIN |-> << <<"a", "c">> >>,
      MOCO_API_CACHE_TIME |-> <<>>]}

ToolInit ==
    /\ CacheInit
    /\ lastOp = NoOp
    /\ pager = PagerIdle
    /\ query = QueryIdle
    /\ lastQuery = NoQuery
    /\ config = DefaultConfig
    /\ search = SearchIdle
    /\ env \in ToolEnvs
    /\ mocoConfig = NotLoaded
    /\ logger = NoLog
    /\ http = HttpDown
    /\ direct = DirectIdle
    /\ ngrok = NgrokOff
    /\ tool = ToolIdle
    /\ upstream = NoAnswer
    /\ keyed = <<>>

\* the text createValidationErrorMessage returns for its argument
ValidationErrorMessage(field, value, reason) ==
    [text |-> "validation", field |-> field, value |-> value, reason |-> reason]

\* the text createEmptyResultMessage returns for its argument
EmptyResultMessage(type, searchQuery) ==
    [text |-> "empty", type |-> type, query |-> searchQuery]

\* userTools.ts:59  the text formatUserSearchResults returns
UserSearchResults(users, searchQuery) ==
    [text |-> "results", users |-> users, query |-> searchQuery]

\* userTools.ts:62  the text of the catch clause; every failure followed
\* here is an Error, whose message is used
SearchUsersErrorText(error) == <<"Error searching users: ", error.message>>

\* the variables the handler leaves alone
besideTool == <<now, store, pendingFetches, fetches, calls, clearedKeys, lastOp, pager, query,
                lastQuery, config, env, mocoConfig, logger, http, direct, ngrok, upstream, keyed>>

\* a handler whose catch clause throws the failure again
HandlerResumesRethrows ==
    /\ tool.pc = "awaiting"
    /\ search.pc = "done"
    /\ tool' = [tool EXCEPT !.pc = "done",
                            !.result = IF search.result.st = "thrown" THEN search.result
                                       ELSE Returned(UserSearchResults(search.result.value,
                                                                       search.arg))]
    /\ UNCHANGED search
    /\ UNCHANGED besideTool

\* userTools.ts:35-50  the handler up to its first return or await: the
\* validation return before the try, then inside it the constructor, whose
\* field initialiser calls getMocoConfig (mocoApi.ts:24), and the call of
\* searchUsers with the trimmed query
HandlerCall(searchQuery) ==
    /\ tool.pc = "idle"
    /\ search.pc = "idle"
    /\ IF Len(searchQuery) = 0 \/ Len(Trim(searchQuery)) = 0
       THEN /\ tool' = [tool EXCEPT
                   !.pc = "done", !.params = <<[query |-> searchQuery]>>,
                   !.result = Returned(ValidationErrorMessage("query", searchQuery,
                                                              "empty_search_query"))]
            /\ UNCHANGED search
       ELSE LET loaded == GetMocoConfig(env) IN
            IF loaded.st = "thrown"
            THEN /\ tool' = [tool EXCEPT
                        !.pc = "done", !.params = <<[query |-> searchQuery]>>,
                        !.result = Returned(SearchUsersErrorText(loaded.error))]
                 /\ UNCHANGED search
            ELSE /\ tool' = [tool EXCEPT
                        !.pc = "awaiting", !.params = <<[query |-> searchQuery]>>,
                        !.constructed = TRUE]
                 /\ search' = [search EXCEPT
                        !.pc = "awaiting", !.op = "searchUsers", !.arg = Trim(searchQuery),
                        !.awaited = <<CachedQueryOf("searchUsers")>>]
    /\ UNCHANGED besideTool

\* userTools.ts:47-63  the handler after searchUsers has settled: the empty
\* result, the formatted result, or the text of the catch clause
HandlerResumes ==
    /\ tool.pc = "awaiting"
    /\ search.pc = "done"
    /\ tool' = [tool EXCEPT
           !.pc = "done",
           !.result = IF search.result.st = "thrown"
                      THEN Returned(SearchUsersErrorText(search.result.error))
                      ELSE IF Len(search.result.value) = 0
                      THEN Returned(EmptyResultMessage("users", search.arg))
                      ELSE Returned(UserSearchResults(search.result.value, search.arg))]
    /\ UNCHANGED search
    /\ UNCHANGED besideTool

ToolNext ==
    \/ \E q \in SearchQueries : HandlerCall(q)
    \/ \E r \in CachedOutcomes("searchUsers") : LookupSettled(r)
    \/ HandlerResumes

ToolSpec == ToolInit /\ [][ToolNext]_vars

\* ------------------------------------------------- vocabulary of claims --
\* the step is a getOrSet call: it appends the call's record
IsCall == Len(calls') = Len(calls) + 1
TheCall == calls'[Len(calls')]
\* the step set up a new fetcher invocation
StartsFetch == Len(fetches') = Len(fetches) + 1
\* an entry for key is stored and has not expired at time t
HasLiveEntry(s, key, t) == s[key] # NoEntry /\ ~IsExpired(s[key], t)
\* fetcher invocations set up for key by getOrSet(ttl > 0) that were invoked
\* and whose store/finally reaction has not run
InFlight(key) ==
    {f \in DOMAIN fetches :
        fetches[f].key = key /\ fetches[f].ttl > 0 /\ fetches[f].state = "running"}
\* the calls whose promise follows fetch f
Waiters(f) == {c \in DOMAIN calls : calls[c].fetch = f}

\* ---------------------------------------------------------------- C1 ----
\* C1 (as claimed): a getOrSet(K, ttl > 0) call made while an earlier
\* getOrSet(K, ttl > 0) call is unsettled and no unexpired entry for K is
\* stored shares the earlier call's fetcher invocation and sets up none of
\* its own, so the fetcher is invoked once for all of them.
C1_SingleFlight ==
    [][IsCall /\ TheCall.ttl > 0 /\ ~HasLiveEntry(store, TheCall.key, now)
       => \A c \in DOMAIN calls :
            (calls[c].key = TheCall.key /\ calls[c].ttl > 0 /\ calls[c].result = Unsettled)
            => (TheCall.fetch = calls[c].fetch /\ ~StartsFetch)]_vars

\* ---------------------------------------------------------------- C2 ----
\* C2 (as claimed): in every reachable state at most one fetcher invocation
\* started by getOrSet(ttl > 0) is in flight for any key.
C2_AtMostOneInFlight == \A k \in Keys : Cardinality(InFlight(k)) <= 1

\* ---------------------------------------------------------------- C3 ----
\* C3: a getOrSet(K, ttl > 0) call sets up a fetch only when the pending
\* table holds no record for K, and the record for K is registered in that
\* same step, in which the fetcher has not been invoked yet (the fetch is
\* queued); so of two calls made one after the other in one turn only the
\* first starts a fetch and the second joins it.
C3_RegisteredInSameStep ==
    [][(IsCall /\ TheCall.ttl > 0)
       => /\ StartsFetch <=> (TheCall.kind = "start")
          /\ StartsFetch => /\ pendingFetches[TheCall.key] = 0
                            /\ pendingFetches'[TheCall.key] = Len(fetches')
                            /\ TheCall.fetch = Len(fetches')
                            /\ fetches'[Len(fetches')].state = "queued"
          /\ pendingFetches[TheCall.key] # 0 => ~StartsFetch]_vars

\* two calls for one key were made before the fetcher was invoked: the first
\* started the fetch, the second joined it
C3_Witness ==
    \E f \in DOMAIN fetches :
        /\ fetches[f].state = "queued"
        /\ pendingFetches[fetches[f].key] = f
        /\ \E c, d \in Waiters(f) : c < d /\ calls[c].kind = "start" /\ calls[d].kind = "join"

\* ---------------------------------------------------------------- C4 ----
\* the entry stored for the called key is one that a getOrSet fetch wrote
CallFindsFetched ==
    /\ IsCall /\ TheCall.ttl > 0
    /\ store[TheCall.key] # NoEntry
    /\ store[TheCall.key].value.src # 0

\* the store reaction of a fetch stamps the entry with now + ttl * 1000
StampedWithTtl ==
    \A f \in DOMAIN fetches :
        (fetches[f].state = "running" /\ fetches'[f].state = "stored")
        => /\ store'[fetches[f].key] # NoEntry
           /\ store'[fetches[f].key].value.src = f
           /\ store'[fetches[f].key].expiresAt = <<now + fetches[f].ttl * MsPerSecond>>

C5_BypassFetchesPerCall ==
    \A c \in DOMAIN calls : calls[c].ttl <= 0 =>
        /\ calls[c].kind = "bypass"
        /\ calls[c].fetch \in DOMAIN fetches
        /\ fetches[calls[c].fetch].key = calls[c].key
        /\ fetches[calls[c].fetch].ttl = calls[c].ttl
        /\ fetches[calls[c].fetch].state \in {"running", "delivered"}
        /\ Waiters(calls[c].fetch) = {c}
        /\ (calls[c].result = Unsettled) <=> (fetches[calls[c].fetch].state = "running")
        /\ calls[c].result # Unsettled
           => calls[c].result = Settled(calls[c].fetch, fetches[calls[c].fetch].outcome)

\* a call with ttl <= 0 got the result of its own invocation while an
\* unexpired entry and a pending fetch for its key existed
C5_Witness ==
    \E c \in DOMAIN calls :
        /\ calls[c].ttl <= 0
        /\ calls[c].result = [st |-> "fulfilled", value |-> Value(calls[c].fetch, TRUE)]
        /\ HasLiveEntry(store, calls[c].key, now)
        /\ store[calls[c].key].value.def
        /\ pendingFetches[calls[c].key] # 0
        /\ \E d \in DOMAIN calls : d < c /\ calls[d].key = calls[c].key /\ calls[d].ttl > 0

\* ---------------------------------------------------------------- C6 ----
\* fetch f (set up by getOrSet with ttl > 0) fails in this step
FailsNow(f) ==
    /\ fetches[f].ttl > 0
    /\ fetches[f].outcome = "none"
    /\ fetches'[f].outcome = "fail"

\* C6: when the fetcher of a getOrSet(K, ttl > 0) fetch fails, the store is
\* left as it is, no entry ever holds a result of that fetch, and the record
\* for K is removed from the pending table; a later getOrSet(K, ttl > 0)
\* call never joins the failed fetch, and when it finds no record and no
\* value in the store it sets up a new fetch.
C6_FailureNotCached ==
    [][/\ \A f \in DOMAIN fetches :
            FailsNow(f) => /\ store' = store
                           /\ pendingFetches'[fetches[f].key] = 0
       /\ \A f \in DOMAIN fetches', k \in Keys :
            (fetches'[f].outcome = "fail" /\ store'[k] # NoEntry) => store'[k].value.src # f
       /\ (IsCall /\ TheCall.ttl > 0) =>
            \A f \in DOMAIN fetches :
                (fetches[f].outcome = "fail" /\ fetches[f].key = TheCall.key /\ fetches[f].ttl > 0)
                => /\ TheCall.fetch # f
                   /\ (pendingFetches[TheCall.key] = 0
                       /\ ~MemGetValue(store, TheCall.key, now).def) => StartsFetch]_vars

\* a call's fetch failed and the next call for that key started a new fetch
\* while nothing was stored for the key
C6_Witness ==
    \E c, d \in DOMAIN calls :
        /\ c < d /\ calls[c].key = calls[d].key
        /\ calls[c].kind = "start" /\ calls[c].result = [st |-> "rejected", err |-> calls[c].fetch]
        /\ calls[d].kind = "start" /\ calls[d].fetch # calls[c].fetch
        /\ clearedKeys = {}

\* ---------------------------------------------------------------- C7 ----
\* C7: when a fetch set up by getOrSet(K, ttl > 0) has failed, every call
\* whose promise follows it (the call that started it and the calls that
\* joined it) is rejected with the failure of that one invocation; and
\* joining or being rejected sets up no fetcher invocation: each invocation
\* was set up by exactly one call, which started it or bypassed the cache.
C7_SharedFailure ==
    /\ \A f \in DOMAIN fetches :
        (fetches[f].ttl > 0 /\ fetches[f].outcome = "fail")
        => /\ fetches[f].state = "delivered"
           /\ \A c \in Waiters(f) : calls[c].result = [st |-> "rejected", err |-> f]
    /\ \A f \in DOMAIN fetches :
        Cardinality({c \in Waiters(f) : calls[c].kind \in {"start", "bypass"}}) = 1
    /\ \A c \in DOMAIN calls :
        calls[c].kind = "join" => \E d \in DOMAIN calls : d < c /\ calls[d].kind = "start"
                                                          /\ calls[d].fetch = calls[c].fetch

\* the starter and a joiner of one fetch were both rejected with its failure
C7_Witness ==
    \E c, d \in DOMAIN calls :
        /\ calls[c].kind = "start" /\ calls[d].kind = "join"
        /\ calls[d].fetch = calls[c].fetch
        /\ calls[c].result = [st |-> "rejected", err |-> calls[c].fetch]
        /\ calls[d].result = calls[c].result
        /\ Len(fetches) = 1

\* ---------------------------------------------------------------- C8 ----
\* the fetcher of fetch f (set up by getOrSet with ttl > 0) has settled
FetcherSettled(f) ==
    f \in DOMAIN fetches /\ fetches[f].ttl > 0 /\ fetches[f].outcome # "none"

\* the chain of fetch f has settled: its record is gone from the pending
\* table and every call whose promise follows it has settled
ChainSettled(f) ==
    /\ f \in DOMAIN fetches
    /\ fetches[f].state = "delivered"
    /\ pendingFetches[fetches[f].key] # f
    /\ \A c \in Waiters(f) : calls[c].result # Unsettled

\* C8: whenever the fetcher of a getOrSet(K, ttl > 0) fetch has settled, with
\* success or failure, eventually the record of that fetch is out of the
\* pending table and every call waiting on it has settled; and from then on
\* the table never holds a record of that fetch again.
C8_SettledIsUnregistered ==
    /\ \A f \in FetchIds : FetcherSettled(f) ~> ChainSettled(f)
    /\ [][\A f \in FetchIds : ChainSettled(f) => ChainSettled(f)']_vars

\* a fetch has stored its value and then lost its record, with a starter and
\* a joiner settled
C8_Witness ==
    \E f \in DOMAIN fetches :
        /\ fetches[f].outcome = "ok"
        /\ ChainSettled(f)
        /\ Cardinality(Waiters(f)) = 2
        /\ pendingFetches[fetches[f].key] = 0

\* ---------------------------------------------------------------- C9 ----
\* C9 (as claimed): the first getOrSet(K, ttl > 0) call made after a clear()
\* (with no set of K in between) sets up a new fetcher invocation, whatever
\* was stored or in flight when clear() was called.
C9_ClearThenRefetch ==
    [][(IsCall /\ TheCall.ttl > 0 /\ TheCall.key \in clearedKeys) => StartsFetch]_vars

\* --------------------------------------------------------------- C10 ----
\* the fetches set up for key by getOrSet(ttl > 0) that are still running:
\* the fetcher is queued or invoked and no result has been stored
Running(key) ==
    {f \in DOMAIN fetches :
        fetches[f].key = key /\ fetches[f].ttl > 0 /\ fetches[f].state \in {"queued", "running"}}

\* C10: clear() leaves the store and the pending table empty and every fetch
\* and every caller's promise as it was (nothing is cancelled); the store
\* reaction of a fetch writes the fetch's result into the store whether or
\* not the fetch is still registered; and the first getOrSet(K, ttl > 0) call
\* made after clear() while an earlier fetch for K is still running (nothing
\* having been stored for K since the clear) starts a fetcher invocation of
\* its own and does not join the earlier fetch.
C10_ClearKeepsFetchesRunning ==
    [][/\ Clear => /\ \A k \in Keys : store'[k] = NoEntry /\ pendingFetches'[k] = 0
                   /\ fetches' = fetches
                   /\ calls' = calls
       /\ \A f \in DOMAIN fetches :
            (fetches[f].state = "running" /\ fetches'[f].state = "stored")
            => store'[fetches[f].key] =
                 [value |-> Value(f, fetches'[f].outcome = "ok"),
                  expiresAt |-> <<now + fetches[f].ttl * MsPerSecond>>]
       /\ (/\ IsCall /\ TheCall.ttl > 0 /\ TheCall.key \in clearedKeys
           /\ Running(TheCall.key) # {}
           /\ store[TheCall.key] = NoEntry)
          => /\ StartsFetch
             /\ TheCall.fetch \notin Running(TheCall.key)]_vars

\* a fetch that lost its record to clear() has written its result into the
\* store while the fetch that a later call started is registered
C10_Witness ==
    \E k \in Keys, f, g \in DOMAIN fetches :
        /\ f < g
        /\ fetches[f].key = k /\ fetches[g].key = k
        /\ pendingFetches[k] = g
        /\ fetches[g].state \in {"queued", "running"}
        /\ fetches[f].state = "stored"
        /\ store[k] # NoEntry /\ store[k].value = Value(f, TRUE)

\* --------------------------------------------------------------- C11 ----
\* C11: set(K, v, ttl) with ttl given and <= 0 leaves the store in the state
\* delete(K) leaves it in: no entry for K (v is not stored, an entry found
\* under K is removed) and the entries of the other keys as they were.
C11_NonPositiveTtlDeletes ==
    [][\A key \in Keys, value \in StoreValues, ttlOpt \in StoreTtls :
         (StoreSet(key, value, ttlOpt) /\ ttlOpt # <<>> /\ ttlOpt[1] <= 0)
         => /\ store' = MemDelete(store, key)
            /\ store'[key] = NoEntry
            /\ \A k \in Keys \ {key} : store'[k] = store[k]]_vars

\* set(K, v, ttl <= 0) found an unexpired entry under K and removed it, an
\* entry of another key being stored
C11_Witness ==
    /\ lastOp.op = "set"
    /\ lastOp.ttl # <<>> /\ lastOp.ttl[1] <= 0
    /\ lastOp.found # NoEntry /\ ~IsExpired(lastOp.found, now)
    /\ store[lastOp.key] = NoEntry
    /\ \E k \in Keys \ {lastOp.key} : store[k] # NoEntry

\* --------------------------------------------------------------- C12 ----
\* what MemoryCacheStore.get(key) is to return of the store s at time t, as
\* the claim states it: the value of an entry without expiry or with
\* t < expiresAt, otherwise absent
VisibleValue(s, key, t) ==
    IF s[key] # NoEntry /\ (s[key].expiresAt = <<>> \/ t < s[key].expiresAt[1])
    THEN s[key].value
    ELSE Undefined

\* C12: get(K) returns the value of the entry of K when that entry has no
\* expiry or now < expiresAt, and absent otherwise; expiresAt is the time of
\* the set + ttl*1000 ms (none when set() is given no ttl); a get that finds
\* an expired entry deletes it; and an entry leaves the store only in a get
\* of its key that finds it expired, a set or delete of its key, or a
\* clear(): never in a step in which only time passes.
C12_VisibleUntilExpiry ==
    [][/\ \A key \in Keys :
            StoreGet(key)
            => /\ lastOp'.result = VisibleValue(store, key, now)
               /\ (store[key] # NoEntry /\ store[key].expiresAt # <<>>
                   /\ store[key].expiresAt[1] <= now) => store'[key] = NoEntry
               /\ lastOp'.result # Undefined => store' = store
       /\ \A key \in Keys, value \in StoreValues, ttlOpt \in StoreTtls :
            (StoreSet(key, value, ttlOpt) /\ store'[key] # NoEntry)
            => store'[key].expiresAt =
                 IF ttlOpt = <<>> THEN <<>> ELSE <<now + ttlOpt[1] * MsPerSecond>>
       /\ \A k \in Keys :
            (store[k] # NoEntry /\ store'[k] = NoEntry)
            => \/ StoreGet(k) /\ IsExpired(store[k], now)
               \/ \E value \in StoreValues, ttlOpt \in StoreTtls : StoreSet(k, value, ttlOpt)
               \/ StoreDelete(k)
               \/ StoreClear
       /\ StoreIdle => store' = store]_vars

\* a get made at the instant of expiry (now = expiresAt) found the entry,
\* returned absent and deleted it
C12_Witness ==
    /\ lastOp.op = "get"
    /\ lastOp.found # NoEntry
    /\ lastOp.found.value = Value(0, TRUE)
    /\ lastOp.found.expiresAt = <<now>>
    /\ lastOp.result = Undefined
    /\ store[lastOp.key] = NoEntry

\* --------------------------------------------------------------- C13 ----
\* the response is a successful page that carries all three headers, with
\* X-Total = t and X-Per-Page = pp
CarriesAll(resp, t, pp) ==
    /\ ~resp.net /\ IsOk(resp.status) /\ resp.body.kind = "array"
    /\ resp.headers.xPage # <<>>
    /\ resp.headers.xTotal = <<t>> /\ resp.headers.xPerPage = <<pp>>

\* the items of the responses 1..n, page after page
RECURSIVE Concatenated(_, _)
Concatenated(rs, n) ==
    IF n = 0 THEN <<>> ELSE Concatenated(rs, n - 1) \o rs[n].body.items

\* C13: a request is issued only when every earlier one has been answered;
\* and when every response received is a page carrying X-Page, X-Total = T
\* and X-Per-Page = P with n = ceil(T/P) >= 1, then fetchAllPages has
\* requested the pages 1, 2, ... in that order, never more than n of them,
\* it returns when the n-th has been answered, and it returns the items of
\* the n pages concatenated in page order, each page in the server's order.
C13_AllPagesInOrder ==
    /\ Len(pager.requests) = Len(pager.responses) + (IF pager.pc = "awaiting" THEN 1 ELSE 0)
    /\ \A t \in XTotals, pp \in XPerPages \ {0} :
         ((\A i \in DOMAIN pager.responses : CarriesAll(pager.responses[i], t, pp))
          /\ CeilDiv(t, pp) >= 1)
         => /\ pager.requests = [i \in 1..Len(pager.requests) |-> i]
            /\ Len(pager.requests) <= CeilDiv(t, pp)
            /\ pager.pc \in {"idle", "awaiting", "returned"}
            /\ (pager.pc = "returned" \/ Len(pager.responses) = CeilDiv(t, pp))
               => /\ pager.pc = "returned"
                  /\ Len(pager.requests) = CeilDiv(t, pp)
                  /\ pager.result = Returned(Concatenated(pager.responses, CeilDiv(t, pp)))

\* three pages were announced (X-Total = 3, X-Per-Page = 1) and fetched, the
\* second one with two items
C13_Witness ==
    /\ pager.pc = "returned"
    /\ Len(pager.responses) = 3
    /\ \A i \in DOMAIN pager.responses : CarriesAll(pager.responses[i], 3, 1)
    /\ pager.responses[2].body.items = <<Item(2, 2), Item(2, 1)>>
    /\ pager.requests = <<1, 2, 3>>

\* --------------------------------------------------------------- C14 ----
\* the response lacks at least one of the three headers
LacksHeader(resp) ==
    /\ ~resp.net
    /\ \/ resp.headers.xPage = <<>>
       \/ resp.headers.xTotal = <<>>
       \/ resp.headers.xPerPage = <<>>

\* C14: after a response that lacks one of X-Page, X-Total, X-Per-Page no
\* request is issued: the activation has ended, and when the response was a
\* successful page it has returned the items received so far; when this is
\* the first response, one request was issued and the result is that page's
\* items.
C14_NoHeadersSinglePage ==
    \A i \in DOMAIN pager.responses :
        LacksHeader(pager.responses[i])
        => /\ Len(pager.requests) = i
           /\ pager.pc \in {"returned", "failed"}
           /\ (IsOk(pager.responses[i].status) /\ pager.responses[i].body.kind = "array")
              => /\ pager.pc = "returned"
                 /\ pager.result = Returned(Concatenated(pager.responses, i))
                 /\ i = 1 => /\ pager.requests = <<1>>
                             /\ pager.result = Returned(pager.responses[1].body.items)

\* the first response was a page of two items lacking only X-Page, while its
\* X-Total and X-Per-Page announced three pages
C14_Witness ==
    /\ pager.pc = "returned"
    /\ Len(pager.responses) = 1
    /\ pager.responses[1].headers = [xPage |-> <<>>, xTotal |-> <<3>>, xPerPage |-> <<1>>]
    /\ pager.responses[1].body.kind = "array"
    /\ Len(pager.responses[1].body.items) = 2
    /\ pager.requests = <<1>>

\* --------------------------------------------------------------- C15 ----
\* the call made before this step
PrevCall == calls[Len(calls)]
\* the number of times x occurs in list
Count(list, x) == Cardinality({i \in DOMAIN list : list[i] = x})
\* the two lists hold the same tags the same number of times
IsPermutation(l1, l2) ==
    /\ Len(l1) = Len(l2)
    /\ \A i \in DOMAIN l1 : Count(l1, l1[i]) = Count(l2, l1[i])
\* an unexpired entry is stored under key or a fetch is registered for it
Served(key) == HasLiveEntry(store, key, now) \/ pendingFetches[key] # 0

\* C15: a searchUsers call uses the cache key that every permutation of its
\* tag list gives with the same includeArchived; so with cacheTtlSeconds > 0
\* a call made while the fetch of a call with a permuted tag list is in
\* flight, or while the entry that fetch stored has not expired, causes no
\* upstream fetch of its own.
C15_PermutedTagsShareEntry ==
    [][(IsCall /\ lastQuery'.op = "searchUsers" /\ lastQuery'.tags # <<>>)
       => \A t1 \in TagsOptions \ {<<>>} :
            IsPermutation(t1[1], lastQuery'.tags[1])
            => LET key == UsersCacheKey(lastQuery'.includeArchived, t1) IN
               /\ TheCall.key = key
               /\ (config.cacheTtlSeconds > 0 /\ Served(key)) => ~StartsFetch]_vars

\* with caching on, searchUsers with tags ['b','a'] was served from the entry
\* stored under the sorted key 'users:0:a|b' by the one fetch of the call
\* before it
C15_Witness ==
    /\ config.cacheTtlSeconds > 0
    /\ Len(calls) = 2 /\ Len(fetches) = 1
    /\ lastQuery.op = "searchUsers"
    /\ lastQuery.tags = << << <<"b">>, <<"a">> >> >>
    /\ calls[1].kind = "start" /\ calls[2].kind = "hit"
    /\ calls[1].key = calls[2].key
    /\ calls[2].key = <<"u", "s", "e", "r", "s", ":", "0", ":", "a", "|", "b">>

\* --------------------------------------------------------------- C16 ----
\* the two lists hold the same set of tags
SameTagSet(l1, l2) == {l1[i] : i \in DOMAIN l1} = {l2[i] : i \in DOMAIN l2}

\* C16 (as claimed): a searchUsers call whose tag list holds the same set of
\* tags as the tag list of the searchUsers call before it, with the same
\* includeArchived, uses the same cache key as that call, however often a
\* tag is repeated in either list.
C16_DeduplicatedKey ==
    [][(/\ IsCall
        /\ lastQuery.op = "searchUsers" /\ lastQuery'.op = "searchUsers"
        /\ lastQuery.includeArchived = lastQuery'.includeArchived
        /\ lastQuery.tags # <<>> /\ lastQuery'.tags # <<>>
        /\ SameTagSet(lastQuery.tags[1], lastQuery'.tags[1]))
       => TheCall.key = PrevCall.key]_vars

\* --------------------------------------------------------------- C17 ----
\* tags is undefined, empty, or holds only empty and whitespace-only strings
NoRealTag(tagsOpt) ==
    tagsOpt = <<>> \/ \A i \in DOMAIN tagsOpt[1] : \A j \in DOMAIN tagsOpt[1][i] : tagsOpt[1][i][j] = " "

\* C17: a searchUsers call whose tags are undefined, [] or only empty or
\* whitespace-only strings uses the key 'users:<0|1>:-' of its
\* includeArchived value and its fetcher sends no tags parameter.
C17_BlankTagsOneKey ==
    (lastQuery.op = "searchUsers" /\ NoRealTag(lastQuery.tags))
    => /\ calls[Len(calls)].key =
            (IF lastQuery.includeArchived THEN <<"u", "s", "e", "r", "s", ":", "1", ":", "-">> ELSE <<"u", "s", "e", "r", "s", ":", "0", ":", "-">>)
       /\ lastQuery.params.tags = <<>>

\* searchUsers with tags [' '] was served from the entry 'users:0:-' that the
\* call before it had fetched
C17_Witness ==
    /\ config.cacheTtlSeconds > 0
    /\ Len(calls) = 2 /\ Len(fetches) = 1
    /\ lastQuery.op = "searchUsers"
    /\ lastQuery.tags = << << <<" ">> >> >>
    /\ calls[2].kind = "hit"
    /\ calls[1].key = <<"u", "s", "e", "r", "s", ":", "0", ":", "-">> /\ calls[2].key = <<"u", "s", "e", "r", "s", ":", "0", ":", "-">>

\* --------------------------------------------------------------- C18 ----
\* the fetches of the assigned projects set up through the cache that have
\* not delivered their result
ProjectFetchesOpen ==
    {f \in DOMAIN fetches :
        fetches[f].key = ProjectsCacheKey /\ fetches[f].ttl > 0 /\ fetches[f].state # "delivered"}

\* C18: searchProjects and getProjectTasks use the one key
\* 'projects:assigned'; with cacheTtlSeconds > 0 a call of either made while
\* the entry is unexpired, while a fetch of it is registered, or while an
\* earlier call of either is unsettled causes no fetch of its own, and at
\* most one fetch of /projects/assigned is under way at any time.
C18_OneProjectsEntry ==
    [][/\ (IsCall /\ lastQuery'.op \in {"searchProjects", "getProjectTasks"})
          => /\ TheCall.key = ProjectsCacheKey
             /\ (/\ config.cacheTtlSeconds > 0
                 /\ \/ Served(ProjectsCacheKey)
                    \/ \E c \in DOMAIN calls :
                          calls[c].key = ProjectsCacheKey /\ calls[c].result = Unsettled)
                => ~StartsFetch
       /\ Cardinality(ProjectFetchesOpen) <= 1]_vars

\* with caching on, getProjectTasks was served from the entry that the
\* projects call before it had fetched
C18_Witness ==
    /\ config.cacheTtlSeconds > 0
    /\ Len(calls) = 2 /\ Len(fetches) = 1
    /\ lastQuery.op = "getProjectTasks"
    /\ calls[1].key = ProjectsCacheKey /\ calls[1].kind = "start"
    /\ calls[2].key = ProjectsCacheKey /\ calls[2].kind = "hit"

\* --------------------------------------------------------------- C19 ----
\* the response the query got
TheResponse == query.response[1]
\* the request failed: no response, a non-2xx status, or a body that is not
\* JSON
RequestFailed(resp) == resp.net \/ ~IsOk(resp.status) \/ resp.body.kind = "malformed"

\* C19 (as claimed): getUserHolidays returns an empty array for every
\* response with status 404, and throws for every other failure of the
\* request (another non-2xx status, a network failure, a body that does not
\* parse).
C19_NotFoundIsEmpty ==
    (query.pc = "done" /\ query.op = "getUserHolidays")
    => IF ~TheResponse.net /\ TheResponse.status = 404
       THEN query.result = Returned(EmptyArray)
       ELSE RequestFailed(TheResponse) => query.result.st = "thrown"

\* --------------------------------------------------------------- C20 ----
\* the schedules request failed, or its body is no array
SchedulesFailed(resp) == RequestFailed(resp) \/ resp.body.kind # "array"

\* C20: getTakenHolidays, getTakenSickDays and getPublicHolidays always
\* return an array and never throw; when the schedules request fails (no
\* response, non-2xx status, a body that does not parse) or its body is not
\* an array, the array returned is empty.
C20_SchedulesNeverFail ==
    (query.pc = "done" /\ query.op \in {"getTakenHolidays", "getTakenSickDays", "getPublicHolidays"})
    => /\ query.result.st = "returned"
       /\ query.result.value.json = "array"
       /\ SchedulesFailed(TheResponse) => query.result = Returned(EmptyArray)

\* getTakenSickDays got a 500 whose body lists a sick day, and returned []
C20_Witness ==
    /\ query.pc = "done"
    /\ query.op = "getTakenSickDays"
    /\ ~TheResponse.net /\ TheResponse.status = 500
    /\ TheResponse.body.kind = "array"
    /\ \E i \in DOMAIN TheResponse.body.items : IsSickDay(TheResponse.body.items[i])
    /\ query.result = Returned(EmptyArray)

\* --------------------------------------------------------------- C21 ----
\* what the awaited cached query resolved with
TheFetched == search.fetched[1].value

\* C21: getProjectTasks(id) awaits the assigned-projects query and nothing
\* else; when no project of the set it resolved with has the id, the call
\* fails with the error whose message names id; when one has, the call
\* returns that project's tasks, each carrying the project's id and name,
\* and no task of another project.
C21_UnassignedProjectFails ==
    (search.pc = "done" /\ search.op = "getProjectTasks" /\ search.fetched[1].st = "returned")
    => /\ search.awaited = <<"getCachedProjects">>
       /\ IF \A i \in DOMAIN TheFetched : TheFetched[i].id # search.arg
          THEN /\ search.result.st = "thrown"
               /\ search.result.error.message[1] = "Project "
               /\ search.result.error.message[2] = search.arg
          ELSE /\ search.result.st = "returned"
               /\ \E i \in DOMAIN TheFetched :
                    /\ TheFetched[i].id = search.arg
                    /\ Len(search.result.value) = Len(TheFetched[i].tasks)
                    /\ \A j \in DOMAIN search.result.value :
                         /\ search.result.value[j].id = TheFetched[i].tasks[j].id
                         /\ search.result.value[j].name = TheFetched[i].tasks[j].name
                         /\ search.result.value[j].project =
                              [id |-> search.arg, name |-> TheFetched[i].name]

\* getProjectTasks(3) failed while the projects 1 and 2 were assigned
C21_Witness ==
    /\ search.pc = "done" /\ search.op = "getProjectTasks" /\ search.arg = 3
    /\ search.fetched[1].st = "returned"
    /\ Len(TheFetched) = 2
    /\ \A i \in DOMAIN TheFetched : TheFetched[i].id \in {1, 2}
    /\ search.result = Thrown(NotAssignedError(3))

\* --------------------------------------------------------------- C26 ----
\* the query is empty or holds whitespace only
IsBlank(str) == \A i \in DOMAIN str : str[i] = " "

\* C26 (as claimed): searchUsers and searchProjects called with an empty or
\* whitespace-only query return the cached set as it is: every element, in
\* the cached order.
C26_BlankQueryReturnsAll ==
    (/\ search.pc = "done" /\ search.op \in {"searchUsers", "searchProjects"}
     /\ IsBlank(search.arg) /\ search.fetched[1].st = "returned")
    => search.result = Returned(TheFetched)

\* --------------------------------------------------------------- C22 ----
\* C22 (as claimed): for every response with a non-2xx status, whatever its
\* body, the failure the single-page request hands to the classifier is the
\* one carrying the status ('HTTP <status>: <statusText>'); getUserHolidays,
\* which issues the single-page request, ends with what its catch makes of
\* that failure.
C22_NonOkCarriesStatus ==
    (/\ query.pc = "done" /\ query.op = "getUserHolidays"
     /\ ~TheResponse.net /\ ~IsOk(TheResponse.status))
    => query.result = CatchNotFound(Thrown(HandleMocoApiError(HttpFailure(TheResponse.status))))

\* --------------------------------------------------------------- C23 ----
\* the failures raised inside the request primitive
RawFailures == {NetworkFailure, ParseFailure} \cup {HttpFailure(status) : status \in Statuses}
\* the errors whose message the classification function produced
Classified == {HandleMocoApiError(raw) : raw \in RawFailures}

\* C23 (as claimed): every failure that fetchAllPages, and so getActivities,
\* getProjects and getUserPresences that return its promise, propagates to
\* the caller is an error made by the classification function, for any
\* response and any network failure.
C23_OnlyClassifiedFailures ==
    pager.result.st = "thrown" => pager.result.error \in Classified

\* --------------------------------------------------------------- C24 ----
\* the rejection of the promises that follow fetch f
Rejected(f) == [st |-> "rejected", err |-> f]
\* the fetcher of f is invoked in this step
InvokedNow(f) ==
    /\ f \in DOMAIN fetches'
    /\ fetches'[f].state = "running"
    /\ f \in DOMAIN fetches => fetches[f].state = "queued"

\* C24: a fetcher is invoked once: a fetch that was invoked is never queued
\* or invoked again, a failed one never changes, and a fetcher invocation is
\* set up only by a new getOrSet call; the failure of a fetch rejects each
\* call waiting on it in the step it is delivered, and a settled call never
\* changes.  A page request is issued only when the fetcher is invoked
\* (page 1) or when the response to the page before was a successful one
\* announcing more pages: the response that fails issues none, and after it
\* the activation issues none.
C24_NoRetry ==
    [][/\ \A f \in DOMAIN fetches :
            /\ fetches[f].state # "queued" => fetches'[f].state \notin {"queued"}
            /\ fetches[f].state \in {"stored", "delivered"} => fetches'[f].state # "running"
            /\ fetches[f].outcome = "fail" => fetches'[f] = fetches[f]
            /\ (fetches[f].outcome = "none" /\ fetches'[f].outcome = "fail")
               => \A c \in Waiters(f) :
                    calls[c].result = Unsettled /\ calls'[c].result = Rejected(f)
       /\ \A c \in DOMAIN calls : calls[c].result # Unsettled => calls'[c] = calls[c]
       /\ StartsFetch => (IsCall /\ TheCall.fetch = Len(fetches'))
       /\ (pager.pc = "awaiting" /\ pager'.pc = "failed") => pager'.requests = pager.requests
       /\ pager.pc = "failed" => (pager'.requests = pager.requests /\ pager'.pc \in {"failed", "idle"})
       /\ (pager' # pager /\ pager'.pc = "awaiting")
          => \/ /\ pager.pc = "idle"
                /\ pager'.requests = <<1>>
                /\ \E f \in DOMAIN fetches' : InvokedNow(f)
             \/ /\ pager.pc = "awaiting"
                /\ Len(pager'.responses) = Len(pager.responses) + 1
                /\ MakeRequest(pager'.responses[Len(pager'.responses)]).st = "returned"
                /\ pager'.requests = Append(pager.requests, pager.currentPage + 1)]_vars

\* with caching on, the request for page 2 failed after page 1 had been
\* received: two requests were issued, the one fetcher invocation failed and
\* the call that started it and the call that joined it were both rejected
C24_Witness ==
    /\ config.cacheTtlSeconds > 0
    /\ pager.pc = "idle" /\ pager.result.st = "thrown"
    /\ pager.requests = <<1, 2>> /\ Len(pager.responses) = 2
    /\ Len(fetches) = 1 /\ fetches[1].outcome = "fail"
    /\ Len(calls) = 2
    /\ calls[1].kind = "start" /\ calls[2].kind = "join"
    /\ calls[1].result = Rejected(1) /\ calls[2].result = Rejected(1)

\* --------------------------------------------------------------- C25 ----
\* the positions of the token that are not to be read from the log: all of
\* them for a token of 8 or fewer characters, those between the first 4 and
\* the last 4 for a longer one
HiddenPositions(token) ==
    IF Len(token) > 8 THEN 5..(Len(token) - 4) ELSE DOMAIN token

\* C25: in every entry written for a request the Authorization value is
\* 'Token token=' followed, for a token longer than 8 characters, by its
\* first 4 characters, '...' and its last 4 characters, and for a token of
\* 8 or fewer characters by asterisks only; and it is the value that would
\* be written for every token that differs from the configured one in a
\* hidden position, so that no hidden character can be read from the log.
\* No request writes more than one entry.
C25_TokenMasked ==
    /\ Len(logger.entries) <= logger.requests
    /\ \A i \in DOMAIN logger.entries :
         LET logged == logger.entries[i].headers.Authorization
             token == config.apiKey
         IN
         /\ logged = AuthorizationOf(<<>>) \o
                (IF Len(token) > 8
                 THEN SubSeq(token, 1, 4) \o <<".", ".", ".">> \o SubSeq(token, Len(token) - 3, Len(token))
                 ELSE [j \in 1..(IF Len(token) < 4 THEN 4 ELSE Len(token)) |-> "*"])
         /\ \A h \in HiddenPositions(token), c \in TokenChars :
              SanitizeRequestHeaders(DefaultHeaders([token EXCEPT ![h] = c])).Authorization = logged

\* two requests were logged under the 9-character key 'aaaabaaaa': both
\* entries read 'Token token=aaaa...aaaa'
C25_Witness ==
    /\ config.apiKey = <<"a", "a", "a", "a", "b", "a", "a", "a", "a">>
    /\ Len(logger.entries) = 2
    /\ \A i \in DOMAIN logger.entries :
         logger.entries[i].headers.Authorization =
            AuthorizationOf(<<"a", "a", "a", "a", ".", ".", ".", "a", "a", "a", "a">>)

\* --------------------------------------------------------------- C27 ----
\* the string is a non-negative integer: one or more decimal digits
IsNonNegativeInteger(str) == str # <<>> /\ \A i \in DOMAIN str : str[i] \in Digits
\* the API key and the subdomain pass their checks
KeyAndSubdomainPass ==
    /\ IsSet(env.MOCO_API_KEY) /\ IsSet(env.MOCO_SUBDOMAIN)
    /\ ~HasDomainParts(env.MOCO_SUBDOMAIN[1])

\* C27 (as claimed), for an environment whose API key and subdomain pass
\* their checks: getMocoConfig yields cacheTtlSeconds = 300 when
\* MOCO_API_CACHE_TIME is unset, the number it denotes when it is a
\* non-negative integer (0 included, with which getOrSet bypasses the
\* cache), and fails with the MOCO_API_CACHE_TIME error for every other
\* value.
C27_CacheTtlSeconds ==
    (mocoConfig # NotLoaded /\ KeyAndSubdomainPass)
    => IF env.MOCO_API_CACHE_TIME = <<>>
       THEN mocoConfig.st = "returned" /\ mocoConfig.value.cacheTtlSeconds = 300
       ELSE IF IsNonNegativeInteger(env.MOCO_API_CACHE_TIME[1])
       THEN /\ mocoConfig.st = "returned"
            /\ mocoConfig.value.cacheTtlSeconds = DecimalValue(env.MOCO_API_CACHE_TIME[1])
            /\ mocoConfig.value.cacheTtlSeconds = 0 => Bypasses(mocoConfig.value.cacheTtlSeconds)
       ELSE mocoConfig = Thrown(CacheTimeInvalid)

\* --------------------------------------------------------------- C28 ----
\* C28 (as claimed): getMocoConfig fails with the MOCO_API_KEY error when
\* the API key is missing or empty, otherwise with the MOCO_SUBDOMAIN error
\* when the subdomain is missing or empty, otherwise with the format error
\* when the subdomain contains '.' or 'http', and for every other subdomain
\* it returns the config with baseUrl = https://<subdomain>.mocoapp.com/api/v1.
C28_ChecksInOrder ==
    mocoConfig # NotLoaded
    => IF ~IsSet(env.MOCO_API_KEY) THEN mocoConfig = Thrown(ApiKeyRequired)
       ELSE IF ~IsSet(env.MOCO_SUBDOMAIN) THEN mocoConfig = Thrown(SubdomainRequired)
       ELSE IF HasDomainParts(env.MOCO_SUBDOMAIN[1]) THEN mocoConfig = Thrown(SubdomainFormat)
       ELSE /\ mocoConfig.st = "returned"
            /\ mocoConfig.value.baseUrl = BaseUrl(env.MOCO_SUBDOMAIN[1])

\* C28 (amended): as C28, except that for every other subdomain the call
\* returns the config with that baseUrl or fails with the
\* MOCO_API_CACHE_TIME error, which is checked last; it fails so only when
\* MOCO_API_CACHE_TIME is set and is not a non-negative integer.
C28_ChecksInOrderThenCacheTime ==
    mocoConfig # NotLoaded
    => IF ~IsSet(env.MOCO_API_KEY) THEN mocoConfig = Thrown(ApiKeyRequired)
       ELSE IF ~IsSet(env.MOCO_SUBDOMAIN) THEN mocoConfig = Thrown(SubdomainRequired)
       ELSE IF HasDomainParts(env.MOCO_SUBDOMAIN[1]) THEN mocoConfig = Thrown(SubdomainFormat)
       ELSE IF mocoConfig.st = "thrown"
       THEN /\ mocoConfig = Thrown(CacheTimeInvalid)
            /\ env.MOCO_API_CACHE_TIME # <<>>
            /\ ~IsNonNegativeInteger(env.MOCO_API_CACHE_TIME[1])
       ELSE /\ mocoConfig.st = "returned"
            /\ mocoConfig.value.apiKey = env.MOCO_API_KEY[1]
            /\ mocoConfig.value.subdomain = env.MOCO_SUBDOMAIN[1]
            /\ mocoConfig.value.baseUrl = BaseUrl(env.MOCO_SUBDOMAIN[1])

\* with neither the API key nor the subdomain set, the call failed with the
\* MOCO_API_KEY error
C28_Witness ==
    /\ env.MOCO_API_KEY = <<>> /\ env.MOCO_SUBDOMAIN = <<>>
    /\ mocoConfig = Thrown(ApiKeyRequired)

\* --------------------------------------------------------------- C29 ----
\* the handler serves a request in this step
ServesNow == http'.served = http.served + 1
\* the request's path equals the base path or starts with base path + '/'
UnderBasePath(basePath, req) ==
    /\ req.parses
    /\ \/ req.pathname = basePath
       \/ /\ Len(req.pathname) > Len(basePath)
          /\ \A i \in 1..Len(basePath) : req.pathname[i] = basePath[i]
          /\ req.pathname[Len(basePath) + 1] = "/"

\* C29 (as claimed): a request whose path neither equals the base path nor
\* starts with base path + '/' is answered with status 404 and the JSON-RPC
\* error 'Not Found', and transport.handleRequest is not called for it.
C29_OnlyBasePathReachesTransport ==
    [][(ServesNow /\ ~UnderBasePath(http.basePath, http'.request[1]))
       => /\ http'.response[1] = NotFoundResponse
          /\ http'.handled = http.handled]_vars

\* C29 (amended): with a base path other than '/', a request whose path
\* neither equals the base path nor starts with base path + '/' is not
\* handed to the transport: it is answered with status 404 and the JSON-RPC
\* error 'Not Found', or, when its URL cannot be parsed, with status 500 and
\* the JSON-RPC error 'Internal server error'.  With the base path '/',
\* every request whose URL can be parsed is handed to the transport.
C29_OnlyBasePathReachesTransportUnlessRoot ==
    [][ServesNow
       => LET req == http'.request[1] IN
          /\ (http.basePath # <<"/">> /\ ~UnderBasePath(http.basePath, req))
             => /\ http'.handled = http.handled
                /\ http'.response[1] =
                     (IF req.parses THEN NotFoundResponse ELSE InternalErrorResponse)
          /\ ~req.parses
             => /\ http'.handled = http.handled
                /\ http'.response[1] = InternalErrorResponse
          /\ (http.basePath = <<"/">> /\ req.parses) => http'.handled = http.handled + 1]_vars

\* under the base path '/s' a request for '/s/x' was handed to the transport
\* and the request for '/sx' after it was answered with 404
C29_Witness ==
    /\ http.basePath = <<"/", "s">>
    /\ http.served = 2 /\ http.handled = 1
    /\ http.request[1].parses /\ http.request[1].pathname = <<"/", "s", "x">>
    /\ http.response[1] = NotFoundResponse

\* --------------------------------------------------------------- C30 ----
\* getOrSet is called with ttl <= 0 in this step
BypassCallNow == IsCall /\ TheCall.ttl <= 0
\* the fetcher invoked by a call with ttl <= 0 settles in this step
BypassSettlesNow ==
    \E f \in DOMAIN fetches :
        /\ fetches[f].ttl <= 0
        /\ fetches[f].outcome = "none"
        /\ fetches'[f].outcome # "none"

\* C30: getOrSet with ttl <= 0 leaves the store and the pending-fetch table
\* as they are, both in the call itself and when its fetcher settles, with
\* a value or with a failure: no entry is stored, deleted or overwritten and
\* no pending record is registered or removed.
C30_BypassLeavesCacheUnchanged ==
    [][(BypassCallNow \/ BypassSettlesNow)
       => store' = store /\ pendingFetches' = pendingFetches]_vars

\* a call with ttl <= 0 was rejected with its fetcher's failure while an
\* entry and the pending record of another call's fetch existed for its key
C30_Witness ==
    \E c \in DOMAIN calls :
        /\ calls[c].ttl <= 0
        /\ fetches[calls[c].fetch].outcome = "fail"
        /\ calls[c].result = Settled(calls[c].fetch, "fail")
        /\ store[calls[c].key] # NoEntry
        /\ pendingFetches[calls[c].key] \notin {0, calls[c].fetch}

\* --------------------------------------------------------------- C31 ----
\* a step of a direct operation: its call, a page response of its
\* pagination or its return, or the call or the response of a holiday or
\* schedules query
DirectOperationStep ==
    \/ direct' # direct
    \/ direct.pc = "awaiting" /\ pager' # pager
    \/ query' # query
\* a direct operation is called in this step
DirectCalledNow == direct.pc = "idle" /\ direct'.pc # "idle"
\* a holiday or schedules query is called in this step
QueryCalledNow == query.pc = "idle" /\ query'.pc # "idle"

\* C31: getProjects, getActivities, getUserPresences, getUserHolidays and
\* the three schedules queries neither read nor write the cache: no step of
\* theirs changes the store or the pending-fetch table or makes a getOrSet
\* call or sets up a fetcher invocation, and each call issues a request of
\* its own, whatever 'projects:assigned' holds.
C31_DirectOperationsBesideCache ==
    [][DirectOperationStep
       => /\ store' = store /\ pendingFetches' = pendingFetches
          /\ calls' = calls /\ fetches' = fetches
          /\ DirectCalledNow
             => pager'.pc = "awaiting" /\ pager'.requests = <<1>> /\ pager'.responses = <<>>
          /\ QueryCalledNow
             => query'.pc = "awaiting" /\ query'.request # <<>>]_vars

\* getProjects has been called and awaits the answer to its request for
\* page 1 while 'projects:assigned' holds an unexpired entry
C31_Witness ==
    /\ direct.pc = "awaiting" /\ direct.op = "getProjects"
    /\ pager.pc = "awaiting" /\ pager.requests = <<1>>
    /\ HasLiveEntry(store, ProjectsCacheKey, now)
    /\ store[ProjectsCacheKey].value.def

\* --------------------------------------------------------------- C32 ----
\* the response to a page request arrives in this step
PageAnsweredNow == Len(pager'.responses) = Len(pager.responses) + 1
\* the fetcher invocation whose pagination failed settles in this step
FailedFetcherSettlesNow == pager.pc = "failed" /\ pager'.pc = "idle"

\* C32: when the request for a page fails, fetchAllPages throws: it returns
\* no items, those of the pages before included; and when it ran as the
\* fetcher of getOrSet, its settling leaves the store as it is and rejects
\* every call waiting on it, so that the store never holds a value of a
\* failed fetch.
C32_FailedPageFailsAll ==
    [][/\ (PageAnsweredNow /\ RequestFailed(pager'.responses[Len(pager'.responses)]))
          => pager'.pc = "failed" /\ pager'.result.st = "thrown"
       /\ FailedFetcherSettlesNow
          => /\ store' = store
             /\ \E f \in DOMAIN fetches :
                    /\ fetches[f].state = "running"
                    /\ fetches'[f].outcome = "fail"
                    /\ \A c \in Waiters(f) : calls'[c].result = Rejected(f)
       /\ \A k \in DOMAIN store' :
              (store'[k] # NoEntry /\ store'[k].value.src \in DOMAIN fetches')
              => fetches'[store'[k].value.src].outcome # "fail"]_vars

\* the request for page 2 failed after page 1 had brought items; the fetch
\* failed, its caller was rejected and nothing is stored for the key
C32_Witness ==
    /\ config.cacheTtlSeconds > 0
    /\ Len(pager.responses) = 2
    /\ ~RequestFailed(pager.responses[1]) /\ RequestFailed(pager.responses[2])
    /\ pager.allItems # <<>>
    /\ pager.pc = "idle" /\ pager.result.st = "thrown"
    /\ Len(fetches) = 1 /\ fetches[1].state = "delivered"
    /\ calls[1].result = Rejected(1)
    /\ store[ProjectsCacheKey] = NoEntry

OwnerSettlesNow(key) ==
    /\ fetches[pendingFetches[key]].state # "delivered"
    /\ fetches'[pendingFetches[key]].state = "delivered"

\* C34: the pending record of a key is removed (or replaced) only in the
\* step in which the fetch it names settles, or by clear(): the settling of
\* another fetch for the key leaves the record of a fetch in flight alone.
C34_RecordRemovedByOwnFetchOnly ==
    [][\A key \in Keys :
           (pendingFetches[key] # 0 /\ pendingFetches'[key] # pendingFetches[key])
           => OwnerSettlesNow(key) \/ Clear]_vars

\* --------------------------------------------------------------- C35 ----
\* the store reaction of fetch f writes its result in this step
StoresNow(f) == fetches[f].state = "running" /\ fetches'[f].state = "stored"
\* the fetch whose result is stored under key (0: none, or a value handed
\* to set() directly)
StoredFetch(key) == IF store[key] = NoEntry THEN 0 ELSE store[key].value.src

\* C35: a fetch never writes its result over the stored result of a fetch
\* that was set up after it.
C35_OlderFetchNeverOverwrites ==
    [][\A f \in DOMAIN fetches :
           StoresNow(f) => ~(StoredFetch(fetches[f].key) > f)]_vars

\* --------------------------------------------------------------- C36 ----
\* C36: two calls of getCachedUsers that use the same cache key send the
\* same upstream query (the same include_archived and the same tags
\* parameter).
C36_SameKeySameQuery ==
    \A i, j \in DOMAIN keyed :
        keyed[i].cacheKey = keyed[j].cacheKey => keyed[i].params = keyed[j].params

\* --------------------------------------------------------------- C37 ----
\* C37: once shutdown() has completed and connect() has settled, no tunnel
\* is open.
C37_NoTunnelAfterShutdown ==
    (ngrok.shutdown = "done" /\ ngrok.connect \in {"established", "failed"})
    => ngrok.tunnel # "open"


\* the step is one of the search_users handler: it starts, or it resumes
\* after searchUsers has settled
HandlerStepNow == tool' # tool

\* C38: the promise of the search_users handler never rejects.  Called with
\* an empty or whitespace-only query it returns the validation message at
\* once: the service is not constructed, searchUsers is not called, and the
\* cache, its fetches and the request log stay as they were.  When
\* searchUsers has thrown, the handler returns the text
\* 'Error searching users: ' followed by the message of the failure.
C38_SearchUsersToolNeverRejects ==
    [][HandlerStepNow =>
        /\ tool'.result.st # "thrown"
        /\ tool'.pc = "done" => tool'.result.st = "returned"
        /\ (tool.pc = "idle" /\ IsBlank(tool'.params[1].query)) =>
              /\ tool'.pc = "done"
              /\ tool'.result = Returned(ValidationErrorMessage("query", tool'.params[1].query,
                                                                "empty_search_query"))
              /\ ~tool'.constructed
              /\ UNCHANGED <<search, store, pendingFetches, fetches, calls, pager, query, logger>>
        /\ (tool.pc = "awaiting" /\ search.result.st = "thrown") =>
              tool'.result = Returned(<<"Error searching users: ", search.result.error.message>>)
      ]_vars

\* searchUsers has thrown for a query of text and the handler has returned
\* the error text
C38_Witness ==
    /\ tool.pc = "done"
    /\ tool.constructed
    /\ ~IsBlank(tool.params[1].query)
    /\ search.pc = "done"
    /\ search.result.st = "thrown"
    /\ tool.result.st = "returned"
    /\ tool.result.value[1] = "Error searching users: "


\* --------------------------------------------------------------- C39 ----
\* fetch e is the last one set up for key by getOrSet(ttl > 0), and the
\* calls that followed it have been settled: a call made now is the next
\* one after them
ResolvedLast(key, e) ==
    /\ fetches[e].state = "delivered"
    /\ \A g \in DOMAIN fetches : (fetches[g].key = key /\ fetches[g].ttl > 0) => g <= e

\* C39: a getOrSet(K, ttl > 0) call that finds an unexpired entry which a
\* fetch stored is served from the store exactly when the stored result is
\* not undefined, and then without a new fetcher invocation.  A stored
\* undefined is not served: the call's promise is left to a fetch, and the
\* call that comes next after the calls resolved with undefined sets up a
\* new invocation of the fetcher.
C39_UndefinedNeverServed ==
    [][(CallFindsFetched /\ HasLiveEntry(store, TheCall.key, now)) =>
          LET cached == store[TheCall.key].value IN
          IF cached.def
          THEN /\ TheCall.kind = "hit"
               /\ TheCall.result = [st |-> "fulfilled", value |-> cached]
               /\ ~StartsFetch
          ELSE /\ TheCall.kind \in {"start", "join"}
               /\ TheCall.result = Unsettled
               /\ ResolvedLast(TheCall.key, cached.src) =>
                     /\ StartsFetch
                     /\ TheCall.kind = "start"
                     /\ TheCall.fetch = Len(fetches')
                     /\ TheCall.fetch # cached.src]_vars

\* a call was resolved with undefined, and the next call for its key, made
\* while the stored undefined has not expired, set up a second invocation
C39_Witness ==
    \E c, d \in DOMAIN calls :
        /\ c < d /\ calls[c].key = calls[d].key
        /\ calls[c].kind = "start" /\ calls[c].ttl > 0 /\ calls[d].ttl > 0
        /\ calls[c].result = [st |-> "fulfilled", value |-> Value(calls[c].fetch, FALSE)]
        /\ calls[d].kind = "start" /\ calls[d].fetch > calls[c].fetch
        /\ store[calls[c].key] # NoEntry
        /\ store[calls[c].key].value = Value(calls[c].fetch, FALSE)
        /\ ~IsExpired(store[calls[c].key], now)

====
